---- MODULE Spec2Model ----
(***************************************************************************)
(* Plaid webhook intake, mock background queue, transaction sync worker    *)
(* and the PostgreSQL layer they share (src/src/db.ts, worker.ts,          *)
(* mockQueue.ts).                                                          *)
(*                                                                         *)
(* Tables are partial functions: a row exists iff its key is in the        *)
(* DOMAIN.  Of a transaction row the model keeps item_id, amount (standing *)
(* for the columns copied verbatim from the page), currency (standing for  *)
(* the columns the worker defaults) and deleted_at; created_at/updated_at  *)
(* are written but never read by the code and are left out.                *)
(* A cursor is the index of the next page of the item's feed; 0 is the     *)
(* empty string, which the worker sends as "no cursor" (cursor||undefined).*)
(***************************************************************************)
EXTENDS Integers, Sequences, FiniteSets, TLC

\* ------------------------------------------------------------------ bounds
MaxPages == 2   \* pages of new data the source ever holds for one item
MaxRuns == 2    \* invocations of transactionWorker
MaxHooks == 1   \* webhook requests

\* ------------------------------------------------------- program constants
NULL == 0   \* deleted_at IS NULL; timestamps are 1, 2, ...

KnownItems == {"A", "B"}          \* rows of the items table
JobItems == {"A", "X"}            \* item ids jobs and webhooks name; X is in no table

undefined == "undefined"

\* JSON objects are functions from keys; reading a missing key gives undefined
Get(obj, key) == IF key \in DOMAIN obj THEN obj[key] ELSE undefined

\* ------------------------------------------------------------- the source
\* A transaction as /transactions/sync returns it; iso "" is an absent
\* iso_currency_code (and unofficial_currency_code).
PlaidTx(id, amount, iso) == [transaction_id |-> id, amount |-> amount, iso_currency_code |-> iso]

PageContent(a, m, r) == [added |-> a, modified |-> m, removed |-> r]


\* The pages a feed is made of: first data, a modification with a removal,
\* and a page naming one id in added, modified and removed.
PagePool ==
  { PageContent(<<PlaidTx("t1", 10, "EUR"), PlaidTx("t2", 20, "")>>, <<>>, <<>>),
    PageContent(<<>>, <<PlaidTx("t1", 30, "")>>, <<"t2">>),
    PageContent(<<PlaidTx("t1", 10, "")>>, <<PlaidTx("t1", 30, "EUR")>>, <<"t1">>) }

\* plaidClient.transactionsSync({access_token, cursor}) against a feed f:
\* page number c, the cursor after it, and whether more pages exist now.
\* Past the end of the feed the answer is an empty page and the same cursor.
transactionsSync(f, c) ==
  IF c < Len(f)
  THEN [added |-> f[c + 1].added, modified |-> f[c + 1].modified,
        removed |-> f[c + 1].removed, next_cursor |-> c + 1,
        has_more |-> (c + 1 < Len(f))]
  ELSE [added |-> <<>>, modified |-> <<>>, removed |-> <<>>,
        next_cursor |-> c, has_more |-> FALSE]

NoData == [added |-> <<>>, modified |-> <<>>, removed |-> <<>>,
           next_cursor |-> 0, has_more |-> FALSE]

\* ----------------------------------------------------------------- db.ts
\* worker.ts 51-63: the row the worker builds from a page entry
ToTransaction(tx, item_id) ==
  [transaction_id |-> tx.transaction_id,
   item_id |-> item_id,
   amount |-> tx.amount,
   currency |-> IF tx.iso_currency_code # "" THEN tx.iso_currency_code ELSE "USD"]

\* A batch built from the added entries only
allTransactions_AddedOnly(data, item_id) ==
  [k \in 1..Len(data.added) |-> ToTransaction(data.added[k], item_id)]

\* worker.ts 51: [...data.added, ...data.modified]
allTransactions(data, item_id) ==
  [k \in 1..(Len(data.added) + Len(data.modified)) |->
     ToTransaction(IF k <= Len(data.added) THEN data.added[k]
                   ELSE data.modified[k - Len(data.added)], item_id)]

\* UpsertRow with a conflict clause that leaves deleted_at alone
UpsertRow_KeepsTombstone(T, tx) ==
  IF tx.transaction_id \in DOMAIN T
  THEN [T EXCEPT ![tx.transaction_id] =
          [@ EXCEPT !.amount = tx.amount, !.currency = tx.currency]]
  ELSE [id \in DOMAIN T \cup {tx.transaction_id} |->
          IF id = tx.transaction_id
          THEN [item_id |-> tx.item_id, amount |-> tx.amount,
                currency |-> tx.currency, deleted_at |-> NULL]
          ELSE T[id]]

\* UpsertRow with a conflict clause that adds the amount to the stored one
UpsertRow_Accumulates(T, tx) ==
  IF tx.transaction_id \in DOMAIN T
  THEN [T EXCEPT ![tx.transaction_id] =
          [@ EXCEPT !.amount = @ + tx.amount, !.currency = tx.currency,
                    !.deleted_at = NULL]]
  ELSE [id \in DOMAIN T \cup {tx.transaction_id} |->
          IF id = tx.transaction_id
          THEN [item_id |-> tx.item_id, amount |-> tx.amount,
                currency |-> tx.currency, deleted_at |-> NULL]
          ELSE T[id]]

\* UpsertRow with a conflict clause that also sets item_id = EXCLUDED.item_id
UpsertRow_TakesOwner(T, tx) ==
  IF tx.transaction_id \in DOMAIN T
  THEN [T EXCEPT ![tx.transaction_id] =
          [@ EXCEPT !.item_id = tx.item_id, !.amount = tx.amount,
                    !.currency = tx.currency, !.deleted_at = NULL]]
  ELSE [id \in DOMAIN T \cup {tx.transaction_id} |->
          IF id = tx.transaction_id
          THEN [item_id |-> tx.item_id, amount |-> tx.amount,
                currency |-> tx.currency, deleted_at |-> NULL]
          ELSE T[id]]

\* INSERT ... ON CONFLICT (transaction_id) DO UPDATE SET ..., deleted_at = NULL
UpsertRow(T, tx) ==
  IF tx.transaction_id \in DOMAIN T
  THEN [T EXCEPT ![tx.transaction_id] =
          [@ EXCEPT !.amount = tx.amount, !.currency = tx.currency, !.deleted_at = NULL]]
  ELSE [id \in DOMAIN T \cup {tx.transaction_id} |->
          IF id = tx.transaction_id
          THEN [item_id |-> tx.item_id, amount |-> tx.amount,
                currency |-> tx.currency, deleted_at |-> NULL]
          ELSE T[id]]

RECURSIVE UpsertAll(_, _)
UpsertAll(T, txs) ==
  IF txs = <<>> THEN T ELSE UpsertAll(UpsertRow(T, Head(txs)), Tail(txs))

\* db.upsertTransactionsWithSoftDelete: the committed batch
upsertTransactionsWithSoftDelete(T, txs) ==
  IF Len(txs) = 0 THEN T ELSE UpsertAll(T, txs)

SeqRange(s) == {s[k] : k \in 1..Len(s)}

\* softDeleteTransactions as a DELETE of the listed rows
softDeleteTransactions_HardDeletes(T, transactionIds, t) ==
  [id \in DOMAIN T \ SeqRange(transactionIds) |-> T[id]]

\* softDeleteTransactions without the "AND deleted_at IS NULL" of the UPDATE
softDeleteTransactions_Restamps(T, transactionIds, t) ==
  IF Len(transactionIds) = 0 THEN T
  ELSE [id \in DOMAIN T |->
          IF id \in SeqRange(transactionIds)
          THEN [T[id] EXCEPT !.deleted_at = t]
          ELSE T[id]]

\* A soft delete that also blanks the amount of the rows it marks
softDeleteTransactions_BlanksAmount(T, transactionIds, t) ==
  IF Len(transactionIds) = 0 THEN T
  ELSE [id \in DOMAIN T |->
          IF id \in SeqRange(transactionIds) /\ T[id].deleted_at = NULL
          THEN [T[id] EXCEPT !.deleted_at = t, !.amount = 0]
          ELSE T[id]]

\* db.softDeleteTransactions at time t
softDeleteTransactions(T, transactionIds, t) ==
  IF Len(transactionIds) = 0 THEN T
  ELSE [id \in DOMAIN T |->
          IF id \in SeqRange(transactionIds) /\ T[id].deleted_at = NULL
          THEN [T[id] EXCEPT !.deleted_at = t]
          ELSE T[id]]

\* db.getCursor: undefined when the item has no row; the worker's
\* `cursor || undefined` makes undefined and "" the same request
getCursor(C, item_id) == IF item_id \in DOMAIN C THEN C[item_id] ELSE 0

\* db.saveCursor: INSERT ... ON CONFLICT (item_id) DO UPDATE
saveCursor(C, item_id, cursor) ==
  [i \in DOMAIN C \cup {item_id} |-> IF i = item_id THEN cursor ELSE C[i]]

\* db.getItem
getItem(I, item_id) == IF item_id \in DOMAIN I THEN I[item_id] ELSE undefined

\* ------------------------------------------------------------------ state
VARIABLES
  items,          \* items table: item_id -> status
  transactions,   \* transactions table: transaction_id -> row
  sync_cursors,   \* sync_cursors table: item_id -> next_cursor
  feed,           \* the source: item_id -> the pages it holds now
  now,            \* the database clock: what the next NOW() returns
  timers,         \* setTimeout callbacks of backgroundQueue not yet run
  run,            \* transactionWorker invocations
  hook,           \* handleWebhook requests and their background processing
  seed            \* the transactions table at the start (for comparisons)

vars == <<items, transactions, sync_cursors, feed, now, timers, run, hook, seed>>

RunIds == 1..MaxRuns

\* QueueMessage (types.ts) and its payload as JSON objects
SyncPayload(item_id) == [item_id |-> item_id]

QueueMessage(type, payload) == [type |-> type, payload |-> payload]

\* mockQueue.ts createMockSQSEvent: one record whose body is the argument
\* (JSON.stringify followed by the worker's JSON.parse gives the object back)
createMockSQSEvent(body) == <<body>>

\* worker.ts 10-19: which handler a record's body is routed to
Route(body) ==
  IF Get(body, "type") = "SYNC_TRANSACTIONS" THEN "handleTransactionSync"
  ELSE IF Get(body, "type") = "ADD_NEW_ACCOUNTS" THEN "handleAddNewAccounts"
  ELSE "unknown"

ActivePcs == {"getItem", "getCursor", "sync", "upsert", "softDelete", "saveCursor"}

\* between the db.getCursor read and the last db.saveCursor write
InFlightPcs == {"sync", "upsert", "softDelete", "saveCursor"}

\* pc, item_id, cursor and data are the invocation's position and locals;
\* the other fields record what it has done:
\*   sent     the type of the message backgroundQueue was given ("none": SQS)
\*   route    the handler the record was routed to
\*   from     the cursor of the transactionsSync call in progress
\*   base     the transactions table when that call returned
\*   applied  which batches of that page are committed
\*   pages    pages whose cursor this run has saved
\*   advanced cursors from which this run has moved the stored cursor forward
\*   overlap  runs of the same item that were running while this one was
\*   failedAt the call that rejected
\*   payload  the payload of the record (handleAddNewAccounts reads account_ids)
\*   accounts what plaidClient.accountsGet answered
\*   reported the accounts handleAddNewAccounts logged as new
IdleRun ==
  [pc |-> "idle", sent |-> "none", route |-> "none", item_id |-> "none", cursor |-> 0,
   data |-> NoData, from |-> 0, base |-> <<>>, pages |-> 0, applied |-> "none",
   advanced |-> {}, overlap |-> {}, failedAt |-> "none",
   payload |-> [item_id |-> "none"], accounts |-> <<>>, reported |-> <<>>]

HookIds == 1..MaxHooks

\* PlaidWebhookBody (types.ts): the parsed request body
WebhookBody(webhook_type, webhook_code, item_id, removed_transactions, new_accounts) ==
  [webhook_type |-> webhook_type, webhook_code |-> webhook_code, item_id |-> item_id,
   removed_transactions |-> removed_transactions, new_accounts |-> new_accounts]

NoBody == WebhookBody("", "", "none", <<>>, <<>>)

NoResponse == [statusCode |-> 0, received |-> FALSE, processed |-> FALSE, action |-> "none"]

\* The APIGatewayProxyEvent: body is "missing" (event.body empty), "malformed"
\* (text JSON.parse rejects) or "json" (text that parses to the object json)
WebhookEvent(body, json) == [body |-> body, json |-> json]

\* jobs: the messages this request has handed to backgroundQueue.sendMessage
FreeHook ==
  [pc |-> "free", body |-> "none", payload |-> NoBody, response |-> NoResponse,
   thrown |-> FALSE, jobs |-> <<>>]

DeltaCodes == {"SYNC_UPDATES_AVAILABLE", "DEFAULT_UPDATE", "INITIAL_UPDATE"}

\* Rows another item's sync left behind: B owns t2, tombstoned at time 1
SeedStores ==
  { <<>>,
    [id \in {"t2"} |-> [item_id |-> "B", amount |-> 5, currency |-> "CAD", deleted_at |-> 1]] }

Init ==
  /\ items = [i \in KnownItems |-> "active"]
  /\ transactions \in SeedStores
  /\ seed = transactions
  /\ sync_cursors = <<>>
  /\ feed = [i \in KnownItems |-> <<>>]
  /\ now = 2
  /\ timers = <<>>
  /\ run = [r \in RunIds |-> IdleRun]
  /\ hook = [h \in HookIds |-> FreeHook]

\* ----------------------------------------------------------- environment
\* New data appears at the source
SourceGrow(i, p) ==
  /\ Len(feed[i]) < MaxPages
  /\ feed' = [feed EXCEPT ![i] = Append(@, p)]
  /\ UNCHANGED <<items, transactions, sync_cursors, now, timers, run, hook, seed>>

\* ------------------------------------------------------ transactionWorker
FreeRun(r) == run[r].pc = "idle" /\ \A q \in RunIds : q < r => run[q].pc # "idle"

\* worker.ts 8-21 up to the first await: the record is parsed and routed
StartRun(r, records, sent) ==
  LET message == records[1]
      route == Route(message)
      item_id == IF route = "unknown" THEN "none" ELSE Get(message.payload, "item_id")
      clash == {q \in RunIds : run[q].pc \in ActivePcs /\ run[q].item_id = item_id}
  IN  run' = [q \in RunIds |->
                IF q = r
                THEN [IdleRun EXCEPT !.pc = IF route = "handleTransactionSync" THEN "getItem"
                                            ELSE IF route = "handleAddNewAccounts"
                                                 THEN "accGetItem"
                                                 ELSE "done",
                                     !.sent = sent,
                                     !.route = route,
                                     !.item_id = item_id,
                                     !.payload = IF route = "unknown"
                                                 THEN [item_id |-> "none"]
                                                 ELSE message.payload,
                                     !.overlap = IF route = "handleTransactionSync"
                                                 THEN clash ELSE {}]
                ELSE IF q \in clash /\ route = "handleTransactionSync"
                     THEN [run[q] EXCEPT !.overlap = @ \cup {r}]
                     ELSE run[q]]

\* The Lambda trigger: SQS hands the worker a record holding a QueueMessage
SQSInvoke(r, item_id) ==
  /\ FreeRun(r)
  /\ StartRun(r, <<QueueMessage("SYNC_TRANSACTIONS", SyncPayload(item_id))>>, "none")
  /\ UNCHANGED <<items, transactions, sync_cursors, feed, now, timers, hook, seed>>

\* mockQueue.ts 29-39: the timer callback invokes the worker
TimerFire(r) ==
  /\ FreeRun(r)
  /\ timers # <<>>
  /\ StartRun(r, createMockSQSEvent(Head(timers).payload), Head(timers).type)
  /\ timers' = Tail(timers)
  /\ UNCHANGED <<items, transactions, sync_cursors, feed, now, hook, seed>>

\* A worker without the early return of worker.ts 31-34
WorkerGetItem_NoReturn(r) ==
  /\ run[r].pc = "getItem"
  /\ run' = [run EXCEPT ![r].pc = "getCursor"]
  /\ UNCHANGED <<items, transactions, sync_cursors, feed, now, timers, hook, seed>>

\* worker.ts 30-34
WorkerGetItem(r) ==
  /\ run[r].pc = "getItem"
  /\ run' = [run EXCEPT ![r].pc =
               IF getItem(items, run[r].item_id) = undefined THEN "done" ELSE "getCursor"]
  /\ UNCHANGED <<items, transactions, sync_cursors, feed, now, timers, hook, seed>>

\* A worker that ignores the stored cursor and starts from the beginning
WorkerGetCursor_FromBeginning(r) ==
  /\ run[r].pc = "getCursor"
  /\ run' = [run EXCEPT ![r].pc = "sync", ![r].cursor = 0]
  /\ UNCHANGED <<items, transactions, sync_cursors, feed, now, timers, hook, seed>>

\* A worker that creates the item's cursor row, empty, when it finds none
WorkerGetCursor_CreatesRow(r) ==
  /\ run[r].pc = "getCursor"
  /\ run' = [run EXCEPT ![r].pc = "sync",
                        ![r].cursor = getCursor(sync_cursors, run[r].item_id)]
  /\ sync_cursors' = saveCursor(sync_cursors, run[r].item_id,
                                getCursor(sync_cursors, run[r].item_id))
  /\ UNCHANGED <<items, transactions, feed, now, timers, hook, seed>>

\* worker.ts 37
WorkerGetCursor(r) ==
  /\ run[r].pc = "getCursor"
  /\ run' = [run EXCEPT ![r].pc = "sync",
                        ![r].cursor = getCursor(sync_cursors, run[r].item_id)]
  /\ UNCHANGED <<items, transactions, sync_cursors, feed, now, timers, hook, seed>>

\* A worker that gives up before its next request when the item needs a
\* new login
WorkerSync_StopsOnLoginRequired(r) ==
  /\ run[r].pc = "sync"
  /\ run' = IF items[run[r].item_id] = "login_required"
            THEN [run EXCEPT ![r].pc = "done"]
            ELSE [run EXCEPT ![r].pc = "upsert",
                             ![r].data = transactionsSync(feed[run[r].item_id], run[r].cursor),
                             ![r].from = run[r].cursor,
                             ![r].base = transactions,
                             ![r].applied = "none"]
  /\ UNCHANGED <<items, transactions, sync_cursors, feed, now, timers, hook, seed>>

\* worker.ts 42-47
WorkerSync(r) ==
  /\ run[r].pc = "sync"
  /\ run' = [run EXCEPT ![r].pc = "upsert",
                        ![r].data = transactionsSync(feed[run[r].item_id], run[r].cursor),
                        ![r].from = run[r].cursor,
                        ![r].base = transactions,
                        ![r].applied = "none"]
  /\ UNCHANGED <<items, transactions, sync_cursors, feed, now, timers, hook, seed>>

\* worker.ts 69: is there a soft-delete batch to send
HasRemoved(data) == Len(data.removed) > 0

\* worker.ts 51-66
WorkerUpsert(r) ==
  /\ run[r].pc = "upsert"
  /\ transactions' = upsertTransactionsWithSoftDelete(
                        transactions, allTransactions(run[r].data, run[r].item_id))
  /\ run' = [run EXCEPT ![r].pc = IF HasRemoved(run[r].data) THEN "softDelete" ELSE "saveCursor",
                        ![r].applied = IF HasRemoved(run[r].data) THEN "upsert" ELSE "both"]
  /\ UNCHANGED <<items, sync_cursors, feed, now, timers, hook, seed>>

\* worker.ts 69-73
WorkerSoftDelete(r) ==
  /\ run[r].pc = "softDelete"
  /\ transactions' = softDeleteTransactions(transactions, run[r].data.removed, now)
  /\ now' = now + 1
  /\ run' = [run EXCEPT ![r].pc = "saveCursor", ![r].applied = "both"]
  /\ UNCHANGED <<items, sync_cursors, feed, timers, hook, seed>>

\* WorkerSaveCursor that writes the cursor only after the last page
WorkerSaveCursor_OnlyAtEnd(r) ==
  /\ run[r].pc = "saveCursor"
  /\ sync_cursors' = IF run[r].data.has_more THEN sync_cursors
                     ELSE saveCursor(sync_cursors, run[r].item_id, run[r].data.next_cursor)
  /\ run' = [run EXCEPT ![r].pc = IF run[r].data.has_more THEN "sync" ELSE "done",
                        ![r].cursor = run[r].data.next_cursor,
                        ![r].pages = @ + 1,
                        ![r].advanced = IF run[r].data.next_cursor > run[r].from
                                        THEN @ \cup {run[r].from} ELSE @,
                        ![r].data = NoData]
  /\ UNCHANGED <<items, transactions, feed, now, timers, hook, seed>>

\* worker.ts 76-80
\* A worker that stops after the first page, whatever has_more says
WorkerSaveCursor_StopsAfterOnePage(r) ==
  /\ run[r].pc = "saveCursor"
  /\ sync_cursors' = saveCursor(sync_cursors, run[r].item_id, run[r].data.next_cursor)
  /\ run' = [run EXCEPT ![r].pc = "done",
                        ![r].cursor = run[r].data.next_cursor,
                        ![r].pages = @ + 1,
                        ![r].advanced = IF run[r].data.next_cursor > run[r].from
                                        THEN @ \cup {run[r].from} ELSE @,
                        ![r].data = NoData]
  /\ UNCHANGED <<items, transactions, feed, now, timers, hook, seed>>

\* A worker that marks the item active again once a page of it is stored
WorkerSaveCursor_MarksActive(r) ==
  /\ run[r].pc = "saveCursor"
  /\ sync_cursors' = saveCursor(sync_cursors, run[r].item_id, run[r].data.next_cursor)
  /\ items' = [i \in DOMAIN items |-> IF i = run[r].item_id THEN "active" ELSE items[i]]
  /\ run' = [run EXCEPT ![r].pc = IF run[r].data.has_more THEN "sync" ELSE "done",
                        ![r].cursor = run[r].data.next_cursor,
                        ![r].pages = @ + 1,
                        ![r].advanced = IF run[r].data.next_cursor > run[r].from
                                        THEN @ \cup {run[r].from} ELSE @,
                        ![r].data = NoData]
  /\ UNCHANGED <<transactions, feed, now, timers, hook, seed>>

WorkerSaveCursor(r) ==
  /\ run[r].pc = "saveCursor"
  /\ sync_cursors' = saveCursor(sync_cursors, run[r].item_id, run[r].data.next_cursor)
  /\ run' = [run EXCEPT ![r].pc = IF run[r].data.has_more THEN "sync" ELSE "done",
                        ![r].cursor = run[r].data.next_cursor,
                        ![r].pages = @ + 1,
                        ![r].advanced = IF run[r].data.next_cursor > run[r].from
                                        THEN @ \cup {run[r].from} ELSE @,
                        ![r].data = NoData]
  /\ UNCHANGED <<items, transactions, feed, now, timers, hook, seed>>

\* An awaited call rejects (the store or the source fails): nothing of the
\* call is committed (db.ts 231-233 rolls the batch back), the exception
\* leaves handleTransactionSync and transactionWorker, and mockQueue.ts
\* 36-38 logs it.  An empty upsert batch makes no call (db.ts 197).
CanThrow(r) ==
  /\ run[r].pc \in ActivePcs
  /\ run[r].pc = "upsert" => Len(allTransactions(run[r].data, run[r].item_id)) > 0

\* WorkerThrow with a catch around the store writes that lets the loop go on
WorkerThrow_Swallowed(r) ==
  /\ CanThrow(r)
  /\ run' = IF run[r].pc \in {"upsert", "softDelete"}
            THEN [run EXCEPT ![r].pc = "saveCursor"]
            ELSE [run EXCEPT ![r].pc = "failed", ![r].failedAt = run[r].pc]
  /\ UNCHANGED <<items, transactions, sync_cursors, feed, now, timers, hook, seed>>

\* WorkerThrow with a catch around transactionsSync that takes a failed
\* request for an empty response
WorkerThrow_SyncCaught(r) ==
  /\ CanThrow(r)
  /\ run' = IF run[r].pc = "sync"
            THEN [run EXCEPT ![r].pc = "saveCursor", ![r].data = NoData,
                             ![r].from = run[r].cursor, ![r].applied = "both"]
            ELSE [run EXCEPT ![r].pc = "failed", ![r].failedAt = run[r].pc]
  /\ UNCHANGED <<items, transactions, sync_cursors, feed, now, timers, hook, seed>>

\* WorkerThrow with the cursor write in a finally block
WorkerThrow_SavesCursor(r) ==
  /\ CanThrow(r)
  /\ run' = [run EXCEPT ![r].pc = "failed", ![r].failedAt = run[r].pc]
  /\ sync_cursors' = IF run[r].pc \in {"softDelete", "saveCursor"}
                     THEN saveCursor(sync_cursors, run[r].item_id, run[r].data.next_cursor)
                     ELSE sync_cursors
  /\ UNCHANGED <<items, transactions, feed, now, timers, hook, seed>>

\* WorkerThrow with an upsert that has no transaction around its statements:
\* the rows written before the failing statement stay
WorkerThrow_PartialUpsert(r) ==
  /\ CanThrow(r)
  /\ run' = [run EXCEPT ![r].pc = "failed", ![r].failedAt = run[r].pc]
  /\ transactions' =
       IF run[r].pc = "upsert"
       THEN UpsertRow(transactions, allTransactions(run[r].data, run[r].item_id)[1])
       ELSE transactions
  /\ UNCHANGED <<items, sync_cursors, feed, now, timers, hook, seed>>

WorkerThrow(r) ==
  /\ CanThrow(r)
  /\ run' = [run EXCEPT ![r].pc = "failed", ![r].failedAt = run[r].pc]
  /\ UNCHANGED <<items, transactions, sync_cursors, feed, now, timers, hook, seed>>

\* ---- handleAddNewAccounts (worker.ts 86-150)
\* The Lambda trigger with an ADD_NEW_ACCOUNTS message in the record
SQSInvokeAccounts(r, item_id, account_ids) ==
  /\ FreeRun(r)
  /\ StartRun(r, <<QueueMessage("ADD_NEW_ACCOUNTS",
                     [item_id |-> item_id, account_ids |-> account_ids])>>, "none")
  /\ UNCHANGED <<items, transactions, sync_cursors, feed, now, timers, hook, seed>>

\* worker.ts 92-96
AccountsGetItem(r) ==
  /\ run[r].pc = "accGetItem"
  /\ run' = [run EXCEPT ![r].pc =
               IF getItem(items, run[r].item_id) = undefined THEN "done" ELSE "accountsGet"]
  /\ UNCHANGED <<items, transactions, sync_cursors, feed, now, timers, hook, seed>>

\* An account as /accounts/get returns it; balance 0 is an absent
\* balances.current
PlaidAccount(account_id, balance) == [account_id |-> account_id, balance |-> balance]

\* worker.ts 117-125: what is logged for an account
AccountInfo(account) ==
  [account_id |-> account.account_id,
   balance |-> account.balance,
   currency |-> "USD"]

\* A filter that is applied whenever the payload has a list, also an empty one
newAccounts_EmptyMeansNone(allAccounts, payload) ==
  IF "account_ids" \in DOMAIN payload
  THEN SelectSeq(allAccounts, LAMBDA acc : acc.account_id \in SeqRange(payload.account_ids))
  ELSE allAccounts

\* worker.ts 108-113: the accounts of the answer that count as new
newAccounts(allAccounts, payload) ==
  IF "account_ids" \in DOMAIN payload /\ Len(payload.account_ids) > 0
  THEN SelectSeq(allAccounts, LAMBDA acc : acc.account_id \in SeqRange(payload.account_ids))
  ELSE allAccounts

\* The accounts the source holds for an item when no claim varies them
SourceAccounts == <<PlaidAccount("acc1", 100), PlaidAccount("acc2", 0)>>

\* worker.ts 98-143: plaidClient.accountsGet resolves with allAccounts; the
\* new accounts are logged and nothing is stored
AccountsGet(r, allAccounts) ==
  /\ run[r].pc = "accountsGet"
  /\ run' = [run EXCEPT ![r].pc = "done",
                        ![r].accounts = allAccounts,
                        ![r].reported = [k \in 1..Len(newAccounts(allAccounts, run[r].payload)) |->
                                          AccountInfo(newAccounts(allAccounts, run[r].payload)[k])]]
  /\ UNCHANGED <<items, transactions, sync_cursors, feed, now, timers, hook, seed>>

\* worker.ts 92 or 101 rejects (145-149 logs and rethrows)
AccountsThrow(r) ==
  /\ run[r].pc \in {"accGetItem", "accountsGet"}
  /\ run' = [run EXCEPT ![r].pc = "failed", ![r].failedAt = run[r].pc]
  /\ UNCHANGED <<items, transactions, sync_cursors, feed, now, timers, hook, seed>>

AccountsStep(r) == AccountsGetItem(r) \/ AccountsGet(r, SourceAccounts) \/ AccountsThrow(r)

WorkerStep(r) ==
  \/ WorkerGetItem(r)
  \/ WorkerGetCursor(r)
  \/ WorkerSync(r)
  \/ WorkerUpsert(r)
  \/ WorkerSoftDelete(r)
  \/ WorkerSaveCursor(r)
  \/ WorkerThrow(r)

\* ----------------------------------------------------------- handleWebhook
FreeHookSlot(h) == hook[h].pc = "free" /\ \A g \in HookIds : g < h => hook[g].pc # "free"

\* db.ts 382-397: the action named in the acknowledgment
ActionOf(payload) ==
  IF payload.webhook_type = "TRANSACTIONS"
  THEN IF payload.webhook_code \in DeltaCodes THEN "trigger_transaction_sync"
       ELSE IF payload.webhook_code = "TRANSACTIONS_REMOVED"
            THEN "soft_delete_" \o ToString(Len(payload.removed_transactions)) \o "_transactions"
            ELSE "unknown"
  ELSE IF payload.webhook_type = "ITEM"
       THEN IF payload.webhook_code = "LOGIN_REQUIRED" THEN "update_item_status_to_login_required"
            ELSE IF payload.webhook_code = "NEW_ACCOUNTS_AVAILABLE"
                 THEN "process_" \o ToString(Len(payload.new_accounts)) \o "_new_accounts"
                 ELSE IF payload.webhook_code = "ERROR" THEN "handle_item_error"
                      ELSE "unknown"
       ELSE "unknown"

\* A handler without the lookup of db.ts 367-380 (the handler of webhook.ts
\* 7-56): every parseable notification is classified and processed
HandleWebhook_NoItemCheck(h, event, lookup) ==
  /\ FreeHookSlot(h)
  /\ hook' = [hook EXCEPT ![h] =
       IF event.body = "missing"
       THEN [pc |-> "done", body |-> event.body, payload |-> NoBody, thrown |-> FALSE, jobs |-> <<>>,
             response |-> [statusCode |-> 400, received |-> FALSE, processed |-> FALSE,
                           action |-> "none"]]
       ELSE IF event.body = "malformed"
       THEN [pc |-> "done", body |-> event.body, payload |-> NoBody,
             thrown |-> TRUE, jobs |-> <<>>,
             response |-> [statusCode |-> 200, received |-> TRUE, processed |-> FALSE,
                           action |-> "none"]]
       ELSE [pc |-> "bgGetItem", body |-> event.body, payload |-> event.json,
             thrown |-> FALSE, jobs |-> <<>>,
             response |-> [statusCode |-> 200, received |-> TRUE, processed |-> TRUE,
                           action |-> ActionOf(event.json)]]]
  /\ UNCHANGED <<items, transactions, sync_cursors, feed, now, timers, run, seed>>

\* A handler whose catch answers 500 (the catch of webhook.ts 52-55)
HandleWebhook_ErrorStatus(h, event, lookup) ==
  /\ FreeHookSlot(h)
  /\ hook' = [hook EXCEPT ![h] =
       IF event.body = "missing"
       THEN [pc |-> "done", body |-> event.body, payload |-> NoBody, thrown |-> FALSE, jobs |-> <<>>,
             response |-> [statusCode |-> 400, received |-> FALSE, processed |-> FALSE,
                           action |-> "none"]]
       ELSE IF event.body = "malformed" \/ lookup = "rejects"
       THEN [pc |-> "done", body |-> event.body,
             payload |-> IF event.body = "malformed" THEN NoBody ELSE event.json,
             thrown |-> TRUE, jobs |-> <<>>,
             response |-> [statusCode |-> 500, received |-> FALSE, processed |-> FALSE,
                           action |-> "none"]]
       ELSE IF getItem(items, event.json.item_id) = undefined
       THEN [pc |-> "done", body |-> event.body, payload |-> event.json, thrown |-> FALSE, jobs |-> <<>>,
             response |-> [statusCode |-> 200, received |-> TRUE, processed |-> FALSE,
                           action |-> "none"]]
       ELSE [pc |-> "bgGetItem", body |-> event.body, payload |-> event.json,
             thrown |-> FALSE, jobs |-> <<>>,
             response |-> [statusCode |-> 200, received |-> TRUE, processed |-> TRUE,
                           action |-> ActionOf(event.json)]]]
  /\ UNCHANGED <<items, transactions, sync_cursors, feed, now, timers, run, seed>>

\* A handler that runs the sync itself before it answers a delta webhook
HandleWebhook_SyncsInline(h, event, lookup) ==
  /\ FreeHookSlot(h)
  /\ hook' = [hook EXCEPT ![h] =
       IF event.body = "missing"
       THEN [pc |-> "done", body |-> event.body, payload |-> NoBody, thrown |-> FALSE, jobs |-> <<>>,
             response |-> [statusCode |-> 400, received |-> FALSE, processed |-> FALSE,
                           action |-> "none"]]
       ELSE IF event.body = "malformed" \/ lookup = "rejects"
       THEN [pc |-> "done", body |-> event.body,
             payload |-> IF event.body = "malformed" THEN NoBody ELSE event.json,
             thrown |-> TRUE, jobs |-> <<>>,
             response |-> [statusCode |-> 200, received |-> TRUE, processed |-> FALSE,
                           action |-> "none"]]
       ELSE IF getItem(items, event.json.item_id) = undefined
       THEN [pc |-> "done", body |-> event.body, payload |-> event.json, thrown |-> FALSE, jobs |-> <<>>,
             response |-> [statusCode |-> 200, received |-> TRUE, processed |-> FALSE,
                           action |-> "none"]]
       ELSE [pc |-> "bgGetItem", body |-> event.body, payload |-> event.json,
             thrown |-> FALSE, jobs |-> <<>>,
             response |-> [statusCode |-> 200, received |-> TRUE, processed |-> TRUE,
                           action |-> ActionOf(event.json)]]]
  /\ IF event.body = "json" /\ lookup = "ok"
        /\ getItem(items, event.json.item_id) # undefined
        /\ event.json.webhook_type = "TRANSACTIONS" /\ event.json.webhook_code \in DeltaCodes
     THEN \E r \in RunIds :
            /\ FreeRun(r)
            /\ StartRun(r, <<QueueMessage("SYNC_TRANSACTIONS", SyncPayload(event.json.item_id))>>,
                        "none")
     ELSE run' = run
  /\ UNCHANGED <<items, transactions, sync_cursors, feed, now, timers, seed>>

\* db.ts 354-427: the request is answered.  lookup says whether the
\* handler's db.getItem resolves ("ok") or rejects ("rejects").
\*   356-362  no body: 400
\*   364      JSON.parse throws on a malformed body: the catch of 415-426
\*   367      db.getItem rejects: the catch of 415-426
\*   368-380  unknown item
\*   382-414  known item: processWebhookAsync has been started and waits
\*            for its own db.getItem when the acknowledgment is returned
HandleWebhook(h, event, lookup) ==
  /\ FreeHookSlot(h)
  /\ hook' = [hook EXCEPT ![h] =
       IF event.body = "missing"
       THEN [pc |-> "done", body |-> event.body, payload |-> NoBody, thrown |-> FALSE, jobs |-> <<>>,
             response |-> [statusCode |-> 400, received |-> FALSE, processed |-> FALSE,
                           action |-> "none"]]
       ELSE IF event.body = "malformed" \/ lookup = "rejects"
       THEN [pc |-> "done", body |-> event.body,
             payload |-> IF event.body = "malformed" THEN NoBody ELSE event.json,
             thrown |-> TRUE, jobs |-> <<>>,
             response |-> [statusCode |-> 200, received |-> TRUE, processed |-> FALSE,
                           action |-> "none"]]
       ELSE IF getItem(items, event.json.item_id) = undefined
       THEN [pc |-> "done", body |-> event.body, payload |-> event.json, thrown |-> FALSE, jobs |-> <<>>,
             response |-> [statusCode |-> 200, received |-> TRUE, processed |-> FALSE,
                           action |-> "none"]]
       ELSE [pc |-> "bgGetItem", body |-> event.body, payload |-> event.json,
             thrown |-> FALSE, jobs |-> <<>>,
             response |-> [statusCode |-> 200, received |-> TRUE, processed |-> TRUE,
                           action |-> ActionOf(event.json)]]]
  /\ UNCHANGED <<items, transactions, sync_cursors, feed, now, timers, run, seed>>

\* db.ts 444-448
BgGetItem(h) ==
  /\ hook[h].pc = "bgGetItem"
  /\ hook' = [hook EXCEPT ![h].pc =
       IF getItem(items, hook[h].payload.item_id) = undefined THEN "done" ELSE "bgDispatch"]
  /\ UNCHANGED <<items, transactions, sync_cursors, feed, now, timers, run, seed>>

\* A queue that holds every message twice
sendMessage_Twice(Q, message) == Append(Append(Q, message), message)

\* mockQueue.ts 25-40: sendMessage arms a timer that holds the message
sendMessage(Q, message) == Append(Q, message)

\* db.ts 143-146
updateItemStatus(I, item_id, status) ==
  [i \in DOMAIN I |-> IF i = item_id THEN status ELSE I[i]]

\* The dispatch of webhook.ts 25-35: a removal notification enqueues a sync
\* job and tombstones nothing
BgDispatch_RemovedEnqueuesSync(h) ==
  LET p == hook[h].payload
      type == p.webhook_type
      code == p.webhook_code
  IN
  /\ hook[h].pc = "bgDispatch"
  /\ timers' =
       IF type = "TRANSACTIONS" /\ code \in DeltaCodes \cup {"TRANSACTIONS_REMOVED"}
       THEN sendMessage(timers, QueueMessage("SYNC_TRANSACTIONS", SyncPayload(p.item_id)))
       ELSE IF type = "ITEM" /\ code = "NEW_ACCOUNTS_AVAILABLE" /\ Len(p.new_accounts) > 0
            THEN sendMessage(timers, QueueMessage("ADD_NEW_ACCOUNTS",
                   [item_id |-> p.item_id, account_ids |-> p.new_accounts]))
            ELSE timers
  /\ transactions' = transactions
  /\ now' = now
  /\ items' =
       IF type = "ITEM" /\ code \in {"LOGIN_REQUIRED", "ERROR"}
       THEN updateItemStatus(items, p.item_id, "login_required")
       ELSE items
  /\ hook' = [hook EXCEPT ![h].pc = "done",
                          ![h].jobs = IF Len(timers') > Len(timers)
                                      THEN Append(@, timers'[Len(timers')]) ELSE @]
  /\ UNCHANGED <<sync_cursors, feed, run, seed>>

\* The dispatch of webhook.ts 37-46: ITEM / ERROR changes nothing
BgDispatch_ErrorUnhandled(h) ==
  LET p == hook[h].payload
      type == p.webhook_type
      code == p.webhook_code
  IN
  /\ hook[h].pc = "bgDispatch"
  /\ timers' =
       IF type = "TRANSACTIONS" /\ code \in DeltaCodes
       THEN sendMessage(timers, QueueMessage("SYNC_TRANSACTIONS", SyncPayload(p.item_id)))
       ELSE IF type = "ITEM" /\ code = "NEW_ACCOUNTS_AVAILABLE" /\ Len(p.new_accounts) > 0
            THEN sendMessage(timers, QueueMessage("ADD_NEW_ACCOUNTS",
                   [item_id |-> p.item_id, account_ids |-> p.new_accounts]))
            ELSE timers
  /\ transactions' =
       IF type = "TRANSACTIONS" /\ code = "TRANSACTIONS_REMOVED"
       THEN softDeleteTransactions(transactions, p.removed_transactions, now)
       ELSE transactions
  /\ now' =
       IF type = "TRANSACTIONS" /\ code = "TRANSACTIONS_REMOVED" /\ Len(p.removed_transactions) > 0
       THEN now + 1 ELSE now
  /\ items' =
       IF type = "ITEM" /\ code = "LOGIN_REQUIRED"
       THEN updateItemStatus(items, p.item_id, "login_required")
       ELSE items
  /\ hook' = [hook EXCEPT ![h].pc = "done",
                          ![h].jobs = IF Len(timers') > Len(timers)
                                      THEN Append(@, timers'[Len(timers')]) ELSE @]
  /\ UNCHANGED <<sync_cursors, feed, run, seed>>

\* A dispatch whose default case enqueues a sync job: every webhook that is
\* neither an ITEM webhook nor a removal triggers a sync
BgDispatch_AnyCodeSyncs(h) ==
  LET p == hook[h].payload
      type == p.webhook_type
      code == p.webhook_code
  IN
  /\ hook[h].pc = "bgDispatch"
  /\ timers' =
       IF type \notin {"ITEM"} /\ code # "TRANSACTIONS_REMOVED"
       THEN sendMessage(timers, QueueMessage("SYNC_TRANSACTIONS", SyncPayload(p.item_id)))
       ELSE IF type = "ITEM" /\ code = "NEW_ACCOUNTS_AVAILABLE" /\ Len(p.new_accounts) > 0
            THEN sendMessage(timers, QueueMessage("ADD_NEW_ACCOUNTS",
                   [item_id |-> p.item_id, account_ids |-> p.new_accounts]))
            ELSE timers
  /\ transactions' =
       IF type = "TRANSACTIONS" /\ code = "TRANSACTIONS_REMOVED"
       THEN softDeleteTransactions(transactions, p.removed_transactions, now)
       ELSE transactions
  /\ now' =
       IF type = "TRANSACTIONS" /\ code = "TRANSACTIONS_REMOVED" /\ Len(p.removed_transactions) > 0
       THEN now + 1 ELSE now
  /\ items' =
       IF type = "ITEM" /\ code \in {"LOGIN_REQUIRED", "ERROR"}
       THEN updateItemStatus(items, p.item_id, "login_required")
       ELSE items
  /\ hook' = [hook EXCEPT ![h].pc = "done",
                          ![h].jobs = IF Len(timers') > Len(timers)
                                      THEN Append(@, timers'[Len(timers')]) ELSE @]
  /\ UNCHANGED <<sync_cursors, feed, run, seed>>

\* db.ts 450-459 with handleTransactionsWebhook (473-489) and
\* handleItemWebhook (505-525): the one awaited call of the branch taken
BgDispatch(h) ==
  LET p == hook[h].payload
      type == p.webhook_type
      code == p.webhook_code
  IN
  /\ hook[h].pc = "bgDispatch"
  /\ timers' =
       IF type = "TRANSACTIONS" /\ code \in DeltaCodes
       THEN sendMessage(timers, QueueMessage("SYNC_TRANSACTIONS", SyncPayload(p.item_id)))
       ELSE IF type = "ITEM" /\ code = "NEW_ACCOUNTS_AVAILABLE" /\ Len(p.new_accounts) > 0
            THEN sendMessage(timers, QueueMessage("ADD_NEW_ACCOUNTS",
                   [item_id |-> p.item_id, account_ids |-> p.new_accounts]))
            ELSE timers
  /\ transactions' =
       IF type = "TRANSACTIONS" /\ code = "TRANSACTIONS_REMOVED"
       THEN softDeleteTransactions(transactions, p.removed_transactions, now)
       ELSE transactions
  /\ now' =
       IF type = "TRANSACTIONS" /\ code = "TRANSACTIONS_REMOVED" /\ Len(p.removed_transactions) > 0
       THEN now + 1 ELSE now
  /\ items' =
       IF type = "ITEM" /\ code \in {"LOGIN_REQUIRED", "ERROR"}
       THEN updateItemStatus(items, p.item_id, "login_required")
       ELSE items
  /\ hook' = [hook EXCEPT ![h].pc = "done",
                          ![h].jobs = IF Len(timers') > Len(timers)
                                      THEN Append(@, timers'[Len(timers')]) ELSE @]
  /\ UNCHANGED <<sync_cursors, feed, run, seed>>

\* db.ts 401: a rejection of the background processing is logged and dropped
BgThrow(h) ==
  /\ hook[h].pc \in {"bgGetItem", "bgDispatch"}
  /\ hook' = [hook EXCEPT ![h].pc = "done", ![h].thrown = TRUE]
  /\ UNCHANGED <<items, transactions, sync_cursors, feed, now, timers, run, seed>>

\* ----------------------------------------------------------- specifications
\* Webhooks that announce new data, for a known and for an unknown item
DeltaHooks ==
  {WebhookBody("TRANSACTIONS", code, i, <<>>, <<>>) : code \in DeltaCodes, i \in JobItems}

Grow == \E p \in PagePool : SourceGrow("A", p)

Webhook == \E h \in HookIds, p \in DeltaHooks : HandleWebhook(h, WebhookEvent("json", p), "ok")

Background == \E h \in HookIds : BgGetItem(h) \/ BgDispatch(h) \/ BgThrow(h)

Queue == \E r \in RunIds : TimerFire(r)

Trigger == \E r \in RunIds, i \in JobItems : SQSInvoke(r, i)

Worker == \E r \in RunIds : WorkerStep(r)

\* The program as the code lets it run: worker invocations overlap freely
Next == Grow \/ Webhook \/ Background \/ Queue \/ Trigger \/ Worker

Spec == Init /\ [][Next]_vars

\* A job is handed to the worker only while no other invocation is running
NoneRunning == \A q \in RunIds : run[q].pc \notin ActivePcs

SerialTrigger == NoneRunning /\ Trigger

SerialNext == Grow \/ SerialTrigger \/ Worker

SerialSpec == Init /\ [][SerialNext]_vars

\* ------------------------------------------------- what the claims speak of
\* A table as a reader sees it: each record's owner and fields, and whether
\* it is live or tombstoned (the time of the tombstone is left out)
View(T) ==
  [id \in DOMAIN T |-> [item_id |-> T[id].item_id, amount |-> T[id].amount,
                        currency |-> T[id].currency,
                        deleted |-> (T[id].deleted_at # NULL)]]

\* One pass of the loop body of handleTransactionSync over one page
ApplyPage(T, data, item_id, t) ==
  softDeleteTransactions(
    upsertTransactionsWithSoftDelete(T, allTransactions(data, item_id)),
    data.removed, t)

\* The first k pages of a feed applied in page order
RECURSIVE ApplyPages(_, _, _, _)
ApplyPages(T, f, item_id, k) ==
  IF k = 0 THEN T
  ELSE ApplyPage(ApplyPages(T, f, item_id, k - 1), f[k], item_id, 1)

SyncRuns(i) ==
  {r \in RunIds : run[r].route = "handleTransactionSync" /\ run[r].item_id = i}

\* The furthest cursor any run of the item has saved
Hi(i) ==
  LET S == UNION {run[r].advanced : r \in SyncRuns(i)}
  IN  IF S = {} THEN 0 ELSE (CHOOSE c \in S : \A d \in S : d <= c) + 1

\* ------------------------------------------------------------------ claims
\* C1: the job that backgroundQueue delivers for an accepted delta webhook of
\* a known item is routed to handleTransactionSync, and when that run has
\* ended without a failure the item has a cursor row.
C1_JobRoutedToSync ==
  \A r \in RunIds :
    run[r].sent = "SYNC_TRANSACTIONS" =>
      /\ run[r].route = "handleTransactionSync"
      /\ (run[r].pc = "done" => run[r].item_id \in DOMAIN sync_cursors)

\* C2: two runs of handleTransactionSync for the same item are never both
\* between the getCursor read and the last saveCursor write.
C2_OneRunPerItem ==
  \A r1, r2 \in RunIds :
    (r1 # r2 /\ run[r1].item_id = run[r2].item_id
      /\ run[r1].route = "handleTransactionSync"
      /\ run[r2].route = "handleTransactionSync")
    => ~(run[r1].pc \in InFlightPcs /\ run[r2].pc \in InFlightPcs)

\* C3: two runs of one item that overlap never both fetch a page with the
\* same cursor and both save the next cursor of that page.
C3_NoSharedAdvance ==
  \A r1, r2 \in RunIds :
    (r1 # r2 /\ r2 \in run[r1].overlap)
    => run[r1].advanced \cap run[r2].advanced = {}

\* C4: when two runs of one item, each of which applied a page of new data,
\* have both ended, the stored cursor is the furthest one either of them
\* saved and the records are those of the pages up to that cursor applied in
\* page order, as after running the two runs one after the other.
C4_SerialOutcome ==
  \A i \in KnownItems :
    (/\ Cardinality(SyncRuns(i)) = 2
     /\ \A r \in SyncRuns(i) : run[r].pc = "done" /\ run[r].advanced # {})
    => /\ getCursor(sync_cursors, i) = Hi(i)
       /\ View(transactions) = View(ApplyPages(seed, feed[i], i, Hi(i)))

\* The row of an item in sync_cursors: <<cursor>>, or <<>> when there is none
CursorRow(C, i) == IF i \in DOMAIN C THEN <<C[i]>> ELSE <<>>

\* Later runs of the item that have written nothing yet
NotYetWriting(S) ==
  \A q \in S : run[q].pages = 0 /\ run[q].pc \in {"getItem", "getCursor", "sync"}

\* No run of the item has shared its time with another one
RunsInTurn(i) == \A q \in SyncRuns(i) : run[q].overlap = {}

\* Two responses of transactionsSync carry the same page
SamePage(d1, d2) ==
  /\ d1.added = d2.added /\ d1.modified = d2.modified
  /\ d1.removed = d2.removed /\ d1.next_cursor = d2.next_cursor

\* C5: the stored cursor of an item changes only in the saveCursor call of a
\* run whose upsert batch and soft-delete batch of the page are both
\* committed, and it becomes that page's next_cursor; a store write that
\* fails ends the run for good and leaves the stored cursor alone.
C5_CursorOnlyAfterBothBatches ==
  [][ /\ \A i \in KnownItems :
           CursorRow(sync_cursors', i) # CursorRow(sync_cursors, i) =>
             \E r \in RunIds :
               /\ run[r].item_id = i
               /\ run[r].pc = "saveCursor"
               /\ run[r].applied = "both"
               /\ run'[r].pc \in {"sync", "done"}
               /\ CursorRow(sync_cursors', i) = <<run[r].data.next_cursor>>
      /\ \A r \in RunIds :
           /\ (run[r].pc \in {"upsert", "softDelete"}
                 /\ run'[r].pc \notin {run[r].pc, "softDelete", "saveCursor"})
              => (run'[r].pc = "failed" /\ sync_cursors' = sync_cursors)
           /\ (run[r].pc \in {"upsert", "softDelete"}
                 /\ run'[r].pc \in {"softDelete", "saveCursor"} \ {run[r].pc})
              => run'[r].applied # run[r].applied
           /\ run[r].pc = "failed" => run'[r].pc = "failed"
    ]_vars

\* C5 witness: a run saved the cursor of its first page, committed the
\* upserts of the next page and failed in the soft-delete batch; the stored
\* cursor is still the first page's.
C5_Witness ==
  \E r \in RunIds :
    /\ run[r].pc = "failed" /\ run[r].failedAt = "softDelete"
    /\ run[r].pages >= 1
    /\ transactions # run[r].base
    /\ CursorRow(sync_cursors, run[r].item_id) = <<run[r].from>>

\* C6: when a run that has saved k >= 1 pages fails on its next
\* transactionsSync request, the pages up to the k-th are committed, the
\* stored cursor is the k-th page's next_cursor, and the next run of the
\* item makes its first request with that cursor (runs of the item taking
\* turns).
C6_ResumeFromLastPage ==
  \A r \in RunIds :
    (/\ run[r].pc = "failed" /\ run[r].failedAt = "sync" /\ run[r].pages >= 1
     /\ RunsInTurn(run[r].item_id))
    => LET i == run[r].item_id
           later == {q \in SyncRuns(i) : q > r}
       IN  /\ run[r].cursor = transactionsSync(feed[i], run[r].from).next_cursor
           /\ NotYetWriting(later) =>
                /\ CursorRow(sync_cursors, i) = <<run[r].cursor>>
                /\ View(transactions) = View(ApplyPages(seed, feed[i], i, run[r].cursor))
           /\ \A q \in later :
                (run[q].pc = "sync" /\ run[q].pages = 0 /\ \A p \in later : q <= p)
                => run[q].cursor = run[r].cursor

\* C6 witness: a run failed on the request after its first page, and the
\* next run of the item is about to make its first request from that
\* page's next_cursor.
C6_Witness ==
  \E r, q \in RunIds :
    /\ r < q /\ run[q].item_id = run[r].item_id
    /\ run[r].pc = "failed" /\ run[r].failedAt = "sync" /\ run[r].pages >= 1
    /\ run[q].pc = "sync" /\ run[q].pages = 0
    /\ run[q].cursor = run[r].cursor /\ run[q].cursor >= 1
    /\ transactions # seed

\* C7: a step that takes a run out of its transactionsSync call either
\* hands it the page the source holds for its cursor, or ends it with the
\* records and the stored cursor untouched; an ended run stays ended.
C7_SyncThrowLeavesState ==
  [][ \A r \in RunIds :
        /\ (run[r].pc = "sync" /\ run'[r].pc # "sync")
           => \/ /\ run'[r].pc = "upsert"
                 /\ run'[r].data = transactionsSync(feed[run[r].item_id], run[r].cursor)
              \/ /\ run'[r].pc = "failed"
                 /\ transactions' = transactions
                 /\ sync_cursors' = sync_cursors
        /\ run[r].pc = "failed" => run'[r] = run[r]
    ]_vars

\* C7 witness: a run failed in its first transactionsSync call while the
\* item already had records and a stored cursor from an earlier run.
C7_Witness ==
  \E r \in RunIds :
    /\ run[r].pc = "failed" /\ run[r].failedAt = "sync" /\ run[r].pages = 0
    /\ run[r].item_id \in DOMAIN sync_cursors
    /\ run[r].cursor = sync_cursors[run[r].item_id] /\ run[r].cursor >= 1
    /\ \E id \in DOMAIN transactions : transactions[id].item_id = run[r].item_id

C9_UpsertIdempotent ==
  \A p \in PagePool : \A i \in KnownItems :
    LET txs == allTransactions(p, i)
        once == upsertTransactionsWithSoftDelete(transactions, txs)
    IN  upsertTransactionsWithSoftDelete(once, txs) = once

\* C9 witness: a run committed the upsert batch of a page and failed before
\* the soft-deletes; the next run fetched the same page and has committed
\* the same batch again, and the table is as it was when that page was
\* fetched the second time.
C9_Witness ==
  \E r, q \in RunIds :
    /\ r < q /\ run[q].item_id = run[r].item_id
    /\ run[r].pc = "failed" /\ run[r].failedAt = "softDelete"
    /\ run[q].pc = "softDelete" /\ run[q].applied = "upsert"
    /\ SamePage(run[q].data, run[r].data)
    /\ Len(allTransactions(run[q].data, run[q].item_id)) > 0
    /\ transactions = run[q].base
    /\ transactions # run[r].base

\* C10: when a run fails after the upsert batch of a page and before the
\* soft-delete batch or the cursor write, the next run of the item fetches
\* from the same cursor, and once it has saved that same page the records
\* and the stored cursor are those of one application of the page to the
\* table the failed run started from (runs of the item taking turns).
C10_RetryEqualsOneApplication ==
  \A r, q \in RunIds :
    (/\ r < q
     /\ run[r].pc = "failed" /\ run[r].failedAt \in {"softDelete", "saveCursor"}
     /\ q \in SyncRuns(run[r].item_id)
     /\ RunsInTurn(run[r].item_id)
     /\ \A p \in SyncRuns(run[r].item_id) : p > r => q <= p
     /\ run[q].pages = 1 /\ run[q].pc \in {"sync", "done"}
     /\ NotYetWriting({p \in SyncRuns(run[r].item_id) : p > q}))
    => LET i == run[r].item_id
       IN  /\ run[q].from = run[r].from
           /\ SamePage(run[r].data, transactionsSync(feed[i], run[q].from))
              => /\ CursorRow(sync_cursors, i) = <<run[r].data.next_cursor>>
                 /\ View(transactions) = View(ApplyPage(run[r].base, run[r].data, i, 1))

\* C10 witness: a run failed in the soft-delete batch of a page that has
\* both upserts and removals, and the next run has re-fetched that page and
\* ended after saving its cursor.
C10_Witness ==
  \E r, q \in RunIds :
    /\ r < q /\ q \in SyncRuns(run[r].item_id)
    /\ run[r].pc = "failed" /\ run[r].failedAt = "softDelete"
    /\ Len(allTransactions(run[r].data, run[r].item_id)) > 0
    /\ run[q].pages = 1 /\ run[q].pc = "done" /\ run[q].from = run[r].from
    /\ SamePage(run[r].data, transactionsSync(feed[run[r].item_id], run[q].from))
    /\ \E id \in SeqRange(run[r].data.removed) :
         id \in DOMAIN transactions /\ transactions[id].deleted_at # NULL

\* ------------------------------------------------ the webhook endpoint alone
\* Lists of removed_transactions a TRANSACTIONS_REMOVED webhook carries
\* (an absent field reads as the empty list, db.ts 480); t3 is in no table
RemovedLists == {<<>>, <<"t1">>, <<"t2", "t3">>}

HookPayloads ==
  {WebhookBody("TRANSACTIONS", code, i, <<>>, <<>>) :
      code \in DeltaCodes \cup {"HISTORICAL_UPDATE"}, i \in JobItems}
  \cup {WebhookBody("TRANSACTIONS", "TRANSACTIONS_REMOVED", i, rm, <<>>) :
      i \in JobItems, rm \in RemovedLists}
  \cup {WebhookBody("ITEM", code, i, <<>>, <<>>) :
      code \in {"LOGIN_REQUIRED", "ERROR", "PENDING_EXPIRATION"}, i \in JobItems}
  \cup {WebhookBody("ITEM", "NEW_ACCOUNTS_AVAILABLE", i, <<>>, na) :
      i \in JobItems, na \in {<<>>, <<"acc1">>}}
  \cup {WebhookBody("AUTH", "DEFAULT_UPDATE", i, <<>>, <<>>) : i \in JobItems}

HookEvents ==
  {WebhookEvent("missing", NoBody), WebhookEvent("malformed", NoBody)}
  \cup {WebhookEvent("json", p) : p \in HookPayloads}

\* The store as earlier syncs of item A have left it: nothing fetched yet,
\* or one page applied and its cursor saved
HookFeeds == {<<>>} \cup {<<p>> : p \in PagePool}

HookInit ==
  /\ items = [i \in KnownItems |-> "active"]
  /\ \E sd \in SeedStores, f \in HookFeeds :
       /\ transactions = ApplyPages(sd, f, "A", Len(f))
       /\ feed = [i \in KnownItems |-> IF i = "A" THEN f ELSE <<>>]
       /\ sync_cursors = IF Len(f) = 0 THEN <<>> ELSE saveCursor(<<>>, "A", Len(f))
  /\ seed = transactions
  /\ now = 2
  /\ timers = <<>>
  /\ run = [r \in RunIds |-> IdleRun]
  /\ hook = [h \in HookIds |-> FreeHook]

AnyWebhook ==
  \E h \in HookIds, e \in HookEvents, lookup \in {"ok", "rejects"} :
    HandleWebhook(h, e, lookup)

HookNext == AnyWebhook \/ Background

HookSpec == HookInit /\ [][HookNext]_vars

\* The background processing of request h commits its one store or queue call
Dispatched(h) ==
  hook[h].pc = "bgDispatch" /\ hook'[h].pc = "done" /\ ~hook'[h].thrown

IsHook(h, type, codes) ==
  hook[h].payload.webhook_type = type /\ hook[h].payload.webhook_code \in codes

\* C11: the soft-delete batch of a TRANSACTIONS_REMOVED webhook stamps
\* deleted_at on the listed records that are live and on nothing else: a
\* listed record that is already tombstoned keeps its row as it was, a
\* listed id with no row gets none, and unlisted records are untouched.
C11_SoftDeleteOnlyLive ==
  [][ \A h \in HookIds :
        (Dispatched(h) /\ IsHook(h, "TRANSACTIONS", {"TRANSACTIONS_REMOVED"}))
        => LET ids == SeqRange(hook[h].payload.removed_transactions)
           IN  /\ DOMAIN transactions' = DOMAIN transactions
               /\ \A id \in DOMAIN transactions :
                    IF id \in ids /\ transactions[id].deleted_at = NULL
                    THEN transactions'[id] = [transactions[id] EXCEPT !.deleted_at = now]
                    ELSE transactions'[id] = transactions[id]
    ]_vars

\* C11 witness: a TRANSACTIONS_REMOVED webhook that listed a tombstoned
\* record and an id with no row has been processed without a rejection; the
\* record still has the deleted_at it had at the start.
C11_Witness ==
  \E h \in HookIds :
    /\ hook[h].pc = "done" /\ ~hook[h].thrown /\ hook[h].response.processed
    /\ hook[h].payload.webhook_code = "TRANSACTIONS_REMOVED"
    /\ \E id \in SeqRange(hook[h].payload.removed_transactions) :
         /\ id \in DOMAIN seed /\ seed[id].deleted_at # NULL
         /\ transactions[id].deleted_at = seed[id].deleted_at
    /\ \E id \in SeqRange(hook[h].payload.removed_transactions) :
         id \notin DOMAIN transactions

\* ------------------------------------- worker jobs and removal webhooks
\* One page of new data waits at the source of item A
JobInit ==
  /\ items = [i \in KnownItems |-> "active"]
  /\ transactions \in SeedStores
  /\ seed = transactions
  /\ sync_cursors = <<>>
  /\ \E p \in PagePool : feed = [i \in KnownItems |-> IF i = "A" THEN <<p>> ELSE <<>>]
  /\ now = 2
  /\ timers = <<>>
  /\ run = [r \in RunIds |-> IdleRun]
  /\ hook = [h \in HookIds |-> FreeHook]

\* No invocation of the worker is under way
JobsIdle == \A q \in RunIds : run[q].pc \in {"idle", "done", "failed"}

AccountsTrigger ==
  \E r \in RunIds, i \in JobItems : SQSInvokeAccounts(r, i, <<"acc1">>)

JobTrigger == JobsIdle /\ (Trigger \/ AccountsTrigger)

Accounts == \E r \in RunIds : AccountsStep(r)

RemovedWebhook ==
  \E h \in HookIds :
    HandleWebhook(h, WebhookEvent("json",
        WebhookBody("TRANSACTIONS", "TRANSACTIONS_REMOVED", "A", <<"t1">>, <<>>)), "ok")

JobNext == JobTrigger \/ Worker \/ Accounts \/ RemovedWebhook \/ Background

JobSpec == JobInit /\ [][JobNext]_vars

\* C12: no step of a webhook or of a worker job takes a transaction_id out
\* of the transactions table.
C12_NeverHardDeleted ==
  [][ \A id \in DOMAIN transactions : id \in DOMAIN transactions' ]_vars

\* C12 witness: a sync run has applied a page that lists removed records
\* and a TRANSACTIONS_REMOVED webhook has been processed; every record the
\* store held at the start or received since is still there, and one of
\* them carries a deleted_at stamped since the start.
C12_Witness ==
  /\ \E r \in SyncRuns("A") :
       run[r].pc = "done" /\ run[r].pages = 1 /\ Len(feed["A"][1].removed) > 0
  /\ \E h \in HookIds :
       /\ hook[h].pc = "done" /\ ~hook[h].thrown
       /\ hook[h].payload.webhook_code = "TRANSACTIONS_REMOVED"
  /\ DOMAIN seed \subseteq DOMAIN transactions
  /\ \A tx \in SeqRange(allTransactions(transactionsSync(feed["A"], 0), "A")) :
       tx.transaction_id \in DOMAIN transactions
  /\ \E id \in DOMAIN transactions : transactions[id].deleted_at >= 2

\* The step in which webhook h is answered
Answered(h) == hook[h].pc = "free" /\ hook'[h].pc # "free"

LookupPcs == {"getItem", "accGetItem", "done", "failed"}

\* Invocation r handles a job that names an item with no row in items
UnknownItemJob(r) ==
  /\ run[r].route \in {"handleTransactionSync", "handleAddNewAccounts"}
  /\ run[r].item_id \notin DOMAIN items

\* C14: a SYNC_TRANSACTIONS or ADD_NEW_ACCOUNTS job whose item_id is not in
\* the items table never gets past the lookup of the item (no cursor read, no
\* Plaid call, no page applied, no cursor saved), and no step of its
\* invocation changes items, transactions or sync_cursors.
C14_UnknownItemJobReturns ==
  /\ [](\A r \in RunIds :
          UnknownItemJob(r)
          => /\ run[r].pc \in LookupPcs
             /\ run[r].failedAt \in {"none", "getItem", "accGetItem"}
             /\ run[r].data = NoData
             /\ run[r].pages = 0
             /\ run[r].advanced = {})
  /\ [][\A r \in RunIds :
          (run'[r] # run[r] /\ run'[r].route \in {"handleTransactionSync", "handleAddNewAccounts"}
             /\ run'[r].item_id \notin DOMAIN items)
          => UNCHANGED <<items, transactions, sync_cursors>>]_vars

\* C14 witness: a job of each type for item X, which has no row in items,
\* has been handled and the worker has returned; the stores are as they
\* were at the start.
C14_Witness ==
  \E r, q \in RunIds :
    /\ run[r].route = "handleTransactionSync" /\ run[q].route = "handleAddNewAccounts"
    /\ run[r].item_id = "X" /\ run[q].item_id = "X" /\ "X" \notin DOMAIN items
    /\ run[r].pc = "done" /\ run[q].pc = "done"
    /\ transactions = seed /\ sync_cursors = <<>>

C16_BadBodyRejected ==
  \A h \in HookIds :
    (hook[h].pc # "free" /\ hook[h].body \in {"missing", "malformed"})
    => /\ hook[h].response.statusCode \in 400..499
       /\ hook[h].jobs = <<>>

\* C17: once handleWebhook has returned its acknowledgment for a
\* LOGIN_REQUIRED, ERROR or TRANSACTIONS_REMOVED webhook on a known item, the
\* item's status is login_required, respectively every listed record that
\* has a row is tombstoned.
C17_CommittedBeforeAck ==
  \A h \in HookIds :
    (hook[h].pc # "free" /\ hook[h].body = "json" /\ hook[h].response.processed)
    => LET p == hook[h].payload IN
       /\ (p.webhook_type = "ITEM" /\ p.webhook_code \in {"LOGIN_REQUIRED", "ERROR"})
          => items[p.item_id] = "login_required"
       /\ (p.webhook_type = "TRANSACTIONS" /\ p.webhook_code = "TRANSACTIONS_REMOVED")
          => \A id \in SeqRange(p.removed_transactions) \cap DOMAIN transactions :
               transactions[id].deleted_at # NULL

\* Webhook h announces new data (one of the three delta codes) for an item
\* that has a row in items
IsDeltaHook(h) ==
  /\ hook[h].body = "json"
  /\ hook[h].payload.webhook_type = "TRANSACTIONS"
  /\ hook[h].payload.webhook_code \in DeltaCodes
  /\ hook[h].payload.item_id \in DOMAIN items

\* C18: a TRANSACTIONS webhook with SYNC_UPDATES_AVAILABLE, DEFAULT_UPDATE or
\* INITIAL_UPDATE for a known item never has more than one job; when its
\* processing has ended without a rejection it has sent exactly the message
\* SYNC_TRANSACTIONS {item_id}; the step that dispatches it appends that one
\* message to the queue, and no step of it changes items, transactions or
\* sync_cursors.
C18_DeltaEnqueuesOneSync ==
  /\ [](\A h \in HookIds :
          IsDeltaHook(h)
          => LET job == QueueMessage("SYNC_TRANSACTIONS", SyncPayload(hook[h].payload.item_id))
             IN  /\ hook[h].jobs \in {<<>>, <<job>>}
                 /\ (hook[h].pc = "done" /\ ~hook[h].thrown) => hook[h].jobs = <<job>>)
  /\ [][\A h \in HookIds :
          (hook'[h] # hook[h] /\ hook'[h].body = "json"
             /\ hook'[h].payload.webhook_type = "TRANSACTIONS"
             /\ hook'[h].payload.webhook_code \in DeltaCodes
             /\ hook'[h].payload.item_id \in DOMAIN items)
          => /\ UNCHANGED <<items, transactions, sync_cursors>>
             /\ IF Dispatched(h)
                THEN timers' = Append(timers, QueueMessage("SYNC_TRANSACTIONS",
                                                SyncPayload(hook[h].payload.item_id)))
                ELSE timers' = timers]_vars

\* C18 witness: an INITIAL_UPDATE webhook for item A has been processed and
\* the queue holds its one SYNC_TRANSACTIONS message; the stores are as they
\* were at the start.
C18_Witness ==
  \E h \in HookIds :
    /\ IsDeltaHook(h) /\ hook[h].pc = "done" /\ ~hook[h].thrown
    /\ hook[h].payload.webhook_code = "INITIAL_UPDATE"
    /\ hook[h].payload.item_id = "A"
    /\ Len(hook[h].jobs) = 1
    /\ timers = <<QueueMessage("SYNC_TRANSACTIONS", SyncPayload("A"))>>
    /\ transactions = seed /\ items["A"] = "active"

\* C19: the step that dispatches a TRANSACTIONS_REMOVED webhook for a known
\* item tombstones every listed record that has a row, leaves every unlisted
\* record exactly as it was (a live one stays live), sends no message to the
\* queue and leaves sync_cursors and items unchanged; such a webhook never
\* has a job.
C19_RemovedTombstonesDirectly ==
  /\ [](\A h \in HookIds :
          (hook[h].body = "json" /\ IsHook(h, "TRANSACTIONS", {"TRANSACTIONS_REMOVED"}))
          => hook[h].jobs = <<>>)
  /\ [][\A h \in HookIds :
          (Dispatched(h) /\ IsHook(h, "TRANSACTIONS", {"TRANSACTIONS_REMOVED"}))
          => LET listed == SeqRange(hook[h].payload.removed_transactions) IN
             /\ UNCHANGED <<timers, sync_cursors, items>>
             /\ DOMAIN transactions' = DOMAIN transactions
             /\ \A id \in DOMAIN transactions \cap listed :
                  transactions'[id].deleted_at # NULL
             /\ \A id \in DOMAIN transactions \ listed :
                  transactions'[id] = transactions[id]]_vars

\* C19 witness: a TRANSACTIONS_REMOVED webhook for item A that listed t1 has
\* been processed: t1 carries the tombstone of that step, t2 is live, the
\* queue is empty and the cursor of A is the one saved before.
C19_Witness ==
  \E h \in HookIds :
    /\ hook[h].pc = "done" /\ ~hook[h].thrown /\ hook[h].body = "json"
    /\ IsHook(h, "TRANSACTIONS", {"TRANSACTIONS_REMOVED"})
    /\ hook[h].payload.item_id = "A"
    /\ hook[h].payload.removed_transactions = <<"t1">>
    /\ {"t1", "t2"} \subseteq DOMAIN transactions
    /\ transactions["t1"].deleted_at = 2 /\ seed["t1"].deleted_at = NULL
    /\ transactions["t2"].deleted_at = NULL
    /\ timers = <<>> /\ hook[h].jobs = <<>>
    /\ getCursor(sync_cursors, "A") = 1

\* C20: the step that dispatches an ITEM webhook with code LOGIN_REQUIRED or
\* ERROR for a known item sets that item's status to login_required, changes
\* no other item and sends no message to the queue; such a webhook never has
\* a job, and once its processing has ended without a rejection the item's
\* status is login_required.
C20_ReauthSetsLoginRequired ==
  /\ [](\A h \in HookIds :
          (hook[h].body = "json" /\ IsHook(h, "ITEM", {"LOGIN_REQUIRED", "ERROR"})
             /\ hook[h].payload.item_id \in DOMAIN items)
          => /\ hook[h].jobs = <<>>
             /\ (hook[h].pc = "done" /\ ~hook[h].thrown)
                => items[hook[h].payload.item_id] = "login_required")
  /\ [][\A h \in HookIds :
          (Dispatched(h) /\ IsHook(h, "ITEM", {"LOGIN_REQUIRED", "ERROR"}))
          => /\ items' = [items EXCEPT ![hook[h].payload.item_id] = "login_required"]
             /\ UNCHANGED timers]_vars

\* C20 witness: an ITEM / ERROR webhook for item A has been processed: the
\* status of A is login_required, B is still active and the queue is empty.
C20_Witness ==
  \E h \in HookIds :
    /\ hook[h].pc = "done" /\ ~hook[h].thrown /\ hook[h].body = "json"
    /\ IsHook(h, "ITEM", {"ERROR"})
    /\ hook[h].payload.item_id = "A"
    /\ items["A"] = "login_required" /\ items["B"] = "active"
    /\ timers = <<>> /\ hook[h].jobs = <<>>

\* C21: once the processing of an ITEM / NEW_ACCOUNTS_AVAILABLE webhook for a
\* known item has ended without a rejection, it has sent exactly one message
\* ADD_NEW_ACCOUNTS {item_id, account_ids} with the webhook's list of new
\* accounts, whatever that list is.
C21_NewAccountsEnqueuesJob ==
  \A h \in HookIds :
    (hook[h].body = "json" /\ IsHook(h, "ITEM", {"NEW_ACCOUNTS_AVAILABLE"})
       /\ hook[h].payload.item_id \in DOMAIN items
       /\ hook[h].pc = "done" /\ ~hook[h].thrown)
    => hook[h].jobs = <<QueueMessage("ADD_NEW_ACCOUNTS",
                          [item_id |-> hook[h].payload.item_id,
                           account_ids |-> hook[h].payload.new_accounts])>>

\* C22: a webhook for a known item whose type and code are not in the
\* classification table (its action is "unknown") never has a job, and no
\* step of it, from the answer to the end of its background processing,
\* changes items, transactions, sync_cursors or the queue.
C22_UnclassifiedChangesNothing ==
  /\ [](\A h \in HookIds :
          (hook[h].body = "json" /\ hook[h].payload.item_id \in DOMAIN items
             /\ ActionOf(hook[h].payload) = "unknown")
          => hook[h].jobs = <<>>)
  /\ [][\A h \in HookIds :
          (hook'[h] # hook[h] /\ hook'[h].body = "json"
             /\ hook'[h].payload.item_id \in DOMAIN items
             /\ ActionOf(hook'[h].payload) = "unknown")
          => UNCHANGED <<items, transactions, sync_cursors, timers>>]_vars

\* C22 witness: an ITEM / PENDING_EXPIRATION webhook for item A has been
\* processed to the end without a rejection; the stores and the queue are
\* as at the start.
C22_Witness ==
  \E h \in HookIds :
    /\ hook[h].pc = "done" /\ ~hook[h].thrown /\ hook[h].body = "json"
    /\ hook[h].response.processed /\ hook[h].response.action = "unknown"
    /\ hook[h].payload.item_id = "A"
    /\ hook[h].payload.webhook_type = "ITEM"
    /\ hook[h].payload.webhook_code = "PENDING_EXPIRATION"
    /\ transactions = seed /\ timers = <<>>
    /\ \A i \in DOMAIN items : items[i] = "active"

\* ------------------------------------- status flips during a sync run
\* The source of item A holds MaxPages different pages from the start
FlipFeeds ==
  {f \in [1..MaxPages -> PagePool] : \A j, k \in 1..MaxPages : j # k => f[j] # f[k]}

FlipInit ==
  /\ items = [i \in KnownItems |-> "active"]
  /\ transactions \in SeedStores
  /\ seed = transactions
  /\ sync_cursors = <<>>
  /\ \E f \in FlipFeeds : feed = [i \in KnownItems |-> IF i = "A" THEN f ELSE <<>>]
  /\ now = 2
  /\ timers = <<>>
  /\ run = [r \in RunIds |-> IdleRun]
  /\ hook = [h \in HookIds |-> FreeHook]

\* A sync run of item i is between its first read and its last write
InFlight(i) == \E r \in SyncRuns(i) : run[r].pc \in ActivePcs

\* Runs of item A, one after the other
FlipTrigger == NoneRunning /\ \E r \in RunIds : SQSInvoke(r, "A")

\* ITEM / LOGIN_REQUIRED arrives for item A, whose status is active, while
\* a sync run of A is in flight
FlipWebhook ==
  \E h \in HookIds :
    InFlight("A") /\ items["A"] = "active" /\
    HandleWebhook(h, WebhookEvent("json", WebhookBody("ITEM", "LOGIN_REQUIRED", "A", <<>>, <<>>)), "ok")

\* The background processing of the webhook; its status update lands while
\* a sync run of the item is in flight
FlipBackground ==
  \E h \in HookIds :
    \/ BgGetItem(h)
    \/ InFlight(hook[h].payload.item_id) /\ BgDispatch(h)
    \/ BgThrow(h)

FlipNext == FlipTrigger \/ Worker \/ FlipWebhook \/ FlipBackground

FlipSpec == FlipInit /\ [][FlipNext]_vars

\* C23: no step of a worker invocation changes items; the step that sets an
\* item to login_required changes no invocation, record, cursor or page; and
\* a sync run of a known item that completes has fetched every page of the
\* source, the stored cursor is the last page's next_cursor and the records
\* are those of all pages applied in order, whatever the item's status was
\* or became while the run was in flight.
C23_StatusOrthogonalToSync ==
  /\ [][(\E r \in RunIds : run'[r] # run[r]) => items' = items]_vars
  /\ [][(\E h \in HookIds : Dispatched(h)) =>
          UNCHANGED <<run, transactions, sync_cursors, feed>>]_vars
  /\ [](\A r \in RunIds :
          (run[r].pc = "done" /\ run[r].route = "handleTransactionSync"
             /\ run[r].item_id \in DOMAIN items)
          => LET i == run[r].item_id IN
             /\ run[r].cursor = Len(feed[i])
             /\ NotYetWriting({q \in SyncRuns(i) : q > r}) =>
                  /\ CursorRow(sync_cursors, i) = <<Len(feed[i])>>
                  /\ View(transactions) = View(ApplyPages(seed, feed[i], i, Len(feed[i]))))

\* C23 witness: the status of item A was set to login_required while a sync
\* run of A was in flight, and that run has completed after saving two
\* pages.
C23_Witness ==
  \E r \in RunIds, h \in HookIds :
    /\ hook[h].pc = "done" /\ ~hook[h].thrown /\ items["A"] = "login_required"
    /\ r = 1 /\ run[r].pc = "done" /\ run[r].item_id = "A" /\ run[r].pages = 2
    /\ run[r].cursor = 2 /\ getCursor(sync_cursors, "A") = 2
    /\ \A q \in RunIds : q > r => run[q].pc = "idle"

\* The columns of a row other than the tombstone marker
Fields(row) == [item_id |-> row.item_id, amount |-> row.amount, currency |-> row.currency]

\* Invocation r completes its upsert batch in this step
UpsertStep(r) == run[r].pc = "upsert" /\ run'[r].pc \in {"softDelete", "saveCursor"}

\* C24: a step that inserts a record, changes a field of one or makes a
\* tombstoned one live is the upsert step of a worker invocation; a step of
\* a webhook inserts no record, changes no field, and changes the tombstone
\* marker only of ids its removal list names, from live to tombstoned.
C24_OnlyUpsertWritesFields ==
  /\ [][(\/ DOMAIN transactions' # DOMAIN transactions
          \/ \E id \in DOMAIN transactions :
               \/ Fields(transactions'[id]) # Fields(transactions[id])
               \/ transactions[id].deleted_at # NULL /\ transactions'[id].deleted_at = NULL)
         => \E r \in RunIds : UpsertStep(r)]_vars
  /\ [][\A h \in HookIds :
          hook'[h] # hook[h]
          => /\ DOMAIN transactions' = DOMAIN transactions
             /\ \A id \in DOMAIN transactions :
                  /\ Fields(transactions'[id]) = Fields(transactions[id])
                  /\ transactions'[id].deleted_at # transactions[id].deleted_at
                     => /\ IsHook(h, "TRANSACTIONS", {"TRANSACTIONS_REMOVED"})
                        /\ id \in SeqRange(hook[h].payload.removed_transactions)
                        /\ transactions[id].deleted_at = NULL
                        /\ transactions'[id].deleted_at # NULL]_vars

\* C24 witness: a sync run has stored the page that adds t1 and t2 and
\* removes nothing, and a removal webhook that lists t1 has been processed:
\* t1 is tombstoned with the fields the worker gave it.
C24_Witness ==
  \E r \in RunIds, h \in HookIds :
    /\ run[r].pc = "done" /\ run[r].item_id = "A" /\ run[r].pages = 1
    /\ feed["A"][1].removed = <<>> /\ Len(feed["A"][1].added) = 2
    /\ hook[h].pc = "done" /\ ~hook[h].thrown
    /\ hook[h].payload.webhook_code = "TRANSACTIONS_REMOVED"
    /\ "t1" \in DOMAIN transactions /\ "t1" \notin DOMAIN seed
    /\ transactions["t1"].deleted_at # NULL
    /\ transactions["t1"].amount = 10 /\ transactions["t1"].item_id = "A"

\* ------------------------------------- intake, queue and worker together
\* Webhooks for item A that lead to a job
IntakeWebhook ==
  \E h \in HookIds :
    \E p \in {WebhookBody("TRANSACTIONS", "SYNC_UPDATES_AVAILABLE", "A", <<>>, <<>>),
              WebhookBody("ITEM", "NEW_ACCOUNTS_AVAILABLE", "A", <<>>, <<"acc1">>)} :
      HandleWebhook(h, WebhookEvent("json", p), "ok")

\* The SQS trigger hands the worker a job for item A, one at a time
IntakeTrigger ==
  JobsIdle /\ \E r \in RunIds : SQSInvoke(r, "A") \/ SQSInvokeAccounts(r, "A", <<"acc1">>)

IntakeNext == IntakeWebhook \/ Background \/ Queue \/ IntakeTrigger \/ Worker \/ Accounts

IntakeSpec == JobInit /\ [][IntakeNext]_vars

\* Invocation r gets the answer of a Source Client call in this step
PlaidCall(r) ==
  \/ run[r].pc = "sync" /\ run'[r].pc = "upsert"
  \/ run[r].pc = "accountsGet" /\ run'[r].pc = "done"

\* C25: the step in which handleWebhook answers starts no worker invocation,
\* advances none and arms no timer; a step in which transactionsSync or
\* accountsGet answers is a step of a worker invocation and of no webhook;
\* and a webhook has its answer from its first step on, before its
\* background processing and before any job it leads to.
C25_NoPlaidCallBeforeAck ==
  /\ [][(\E h \in HookIds : Answered(h)) => UNCHANGED <<run, timers, feed>>]_vars
  /\ [][(\E r \in RunIds : PlaidCall(r)) => hook' = hook]_vars
  /\ [](\A h \in HookIds : hook[h].pc # "free" => hook[h].response # NoResponse)

\* C25 witness: a delta webhook for item A was answered with processed =
\* true while its job is still held by the queue's timer, and a worker
\* invocation is waiting for the answer of transactionsSync.
C25_Witness ==
  \E h \in HookIds, r \in RunIds :
    /\ hook[h].pc = "done" /\ ~hook[h].thrown /\ hook[h].response.processed
    /\ hook[h].response.statusCode = 200
    /\ Len(hook[h].jobs) = 1 /\ timers = hook[h].jobs
    /\ run[r].pc = "sync" /\ run[r].item_id = "A"

\* ------------------------------------- one invocation with several records
\* The messages an SQS batch may hold
BatchMessages ==
  {QueueMessage("SYNC_TRANSACTIONS", SyncPayload("A")),
   QueueMessage("SYNC_TRANSACTIONS", SyncPayload("B")),
   QueueMessage("ADD_NEW_ACCOUNTS", [item_id |-> "A", account_ids |-> <<"acc1">>])}

\* worker.ts 13-19: the first position of the handler a message is routed to
FirstPc(message) ==
  IF Route(message) = "handleTransactionSync" THEN "getItem"
  ELSE IF Route(message) = "handleAddNewAccounts" THEN "accGetItem"
  ELSE "done"

\* worker.ts 8-14: transactionWorker is invoked with event.Records = records;
\* slot q of run stands for record q, the first one is routed to its handler
\* and the others wait for the loop (pc "record")
BatchInvoke(records) ==
  /\ \A q \in RunIds : run[q].pc = "idle"
  /\ run' = [q \in RunIds |->
              [IdleRun EXCEPT !.pc = IF q = 1 THEN FirstPc(records[q]) ELSE "record",
                              !.route = Route(records[q]),
                              !.item_id = records[q].payload.item_id,
                              !.payload = records[q].payload]]
  /\ UNCHANGED <<items, transactions, sync_cursors, feed, now, timers, hook, seed>>

\* worker.ts 9: the handler of record q - 1 has returned and the for loop
\* takes record q.  A handler that throws leaves the loop (there is no try
\* in transactionWorker), so nothing takes the records after a failed one.
BatchLoop(q) ==
  /\ q > 1 /\ run[q].pc = "record" /\ run[q - 1].pc = "done"
  /\ run' = [run EXCEPT ![q].pc = IF run[q].route = "handleTransactionSync" THEN "getItem"
                                  ELSE IF run[q].route = "handleAddNewAccounts"
                                       THEN "accGetItem" ELSE "done"]
  /\ UNCHANGED <<items, transactions, sync_cursors, feed, now, timers, hook, seed>>

Batch == \E records \in [RunIds -> BatchMessages] : BatchInvoke(records)

Loop == \E q \in RunIds : BatchLoop(q)

BatchNext == Batch \/ Loop \/ Worker \/ Accounts

BatchSpec == JobInit /\ [][BatchNext]_vars

\* The positions in which a handler is at work on its record
HandlerPcs == ActivePcs \cup {"accGetItem", "accountsGet"}

\* C26: a failure while one record is processed does not keep the remaining
\* records of the batch from being processed: as long as a record of the
\* batch waits, a handler is at work on an earlier record or the loop is
\* about to take the next one.
C26_FailureIsLocal ==
  (\E q \in RunIds : run[q].pc = "record")
  => \/ \E r \in RunIds : run[r].pc \in HandlerPcs
     \/ \E q \in RunIds : q > 1 /\ run[q].pc = "record" /\ run[q - 1].pc = "done"

\* C28: no step of a job or webhook for item A changes a record owned by
\* item B, B's stored cursor or B's status (every job and webhook of this
\* specification is for item A or for the unknown item X).
C28_OtherItemUntouched ==
  [][/\ \A id \in DOMAIN transactions :
          transactions[id].item_id = "B"
          => id \in DOMAIN transactions' /\ transactions'[id] = transactions[id]
     /\ CursorRow(sync_cursors', "B") = CursorRow(sync_cursors, "B")
     /\ items'["B"] = items["B"]]_vars

\* ------------------------------------- what the pages of a feed say
\* The entries a page upserts, in the order of the batch
Entries(page) == page.added \o page.modified

UpsertIds(page) == {Entries(page)[k].transaction_id : k \in 1..Len(Entries(page))}

Mentions(page, id) == id \in UpsertIds(page) \cup SeqRange(page.removed)

\* The number of the last page of f that mentions id; 0 when none does
LastMention(f, id) ==
  LET S == {k \in 1..Len(f) : Mentions(f[k], id)}
  IN  IF S = {} THEN 0 ELSE CHOOSE k \in S : \A j \in S : j <= k

\* The last entry of the page's batch for id
LatestEntry(page, id) ==
  LET e == Entries(page)
      K == {k \in 1..Len(e) : e[k].transaction_id = id}
  IN  e[CHOOSE k \in K : \A j \in K : j <= k]

\* C29: when the runs of an item took turns and none failed, and a run has
\* completed after the last page the source holds, then the stored cursor is
\* that page's next_cursor, every id some page upserts has a row, and every
\* row of the item is live with the fields of its latest upsert exactly when
\* the last page that mentions its id lists it in added or modified and not
\* in removed, and is tombstoned otherwise.
C29_Convergence ==
  \A r \in RunIds :
    LET i == run[r].item_id IN
    (/\ run[r].pc = "done" /\ run[r].route = "handleTransactionSync"
     /\ i \in DOMAIN items
     /\ RunsInTurn(i)
     /\ \A q \in SyncRuns(i) : run[q].pc # "failed"
     /\ run[r].cursor = Len(feed[i])
     /\ NotYetWriting({q \in SyncRuns(i) : q > r}))
    => /\ CursorRow(sync_cursors, i) = <<Len(feed[i])>>
       /\ \A k \in 1..Len(feed[i]) : UpsertIds(feed[i][k]) \subseteq DOMAIN transactions
       /\ \A id \in DOMAIN transactions :
            transactions[id].item_id = i
            => LET k == LastMention(feed[i], id) IN
               /\ k >= 1
               /\ IF id \in UpsertIds(feed[i][k]) /\ id \notin SeqRange(feed[i][k].removed)
                  THEN /\ transactions[id].deleted_at = NULL
                       /\ Fields(transactions[id])
                            = Fields(ToTransaction(LatestEntry(feed[i][k], id), i))
                  ELSE transactions[id].deleted_at # NULL

\* C29 witness: two runs of item A, neither failed, have between them
\* stored the first-data page and the page that modifies t1 and removes t2:
\* t1 is live with the modified amount, t2 is tombstoned, the cursor is 2.
C29_Witness ==
  \E r \in RunIds :
    /\ run[r].pc = "done" /\ run[r].item_id = "A" /\ run[r].cursor = 2
    /\ \A q \in RunIds : run[q].pc \in {"idle", "done"}
    /\ Len(feed["A"]) = 2
    /\ Len(feed["A"][1].added) = 2 /\ feed["A"][2].removed = <<"t2">>
    /\ {"t1", "t2"} \subseteq DOMAIN transactions
    /\ transactions["t1"].deleted_at = NULL /\ transactions["t1"].amount = 30
    /\ transactions["t2"].deleted_at # NULL /\ transactions["t2"].item_id = "A"
    /\ getCursor(sync_cursors, "A") = 2

\* ------------------------------------- handleAddNewAccounts and its inputs
\* Payloads of ADD_NEW_ACCOUNTS jobs: no list, an empty list, and lists that
\* name accounts the source has and accounts it does not have
AccountsPayloads ==
  {[item_id |-> i] : i \in JobItems}
  \cup {[item_id |-> i, account_ids |-> l] :
          i \in JobItems, l \in {<<>>, <<"acc1">>, <<"acc2", "acc9">>}}

\* Answers of plaidClient.accountsGet
AccountAnswers ==
  {<<>>,
   <<PlaidAccount("acc1", 100), PlaidAccount("acc2", 0)>>,
   <<PlaidAccount("acc2", 0), PlaidAccount("acc3", 7), PlaidAccount("acc1", 100)>>}

\* The Lambda trigger with an ADD_NEW_ACCOUNTS message, one job at a time
AccountsInvoke ==
  /\ JobsIdle
  /\ \E r \in RunIds, payload \in AccountsPayloads :
       /\ FreeRun(r)
       /\ StartRun(r, <<QueueMessage("ADD_NEW_ACCOUNTS", payload)>>, "none")
  /\ UNCHANGED <<items, transactions, sync_cursors, feed, now, timers, hook, seed>>

AccountsAnswer == \E r \in RunIds, allAccounts \in AccountAnswers : AccountsGet(r, allAccounts)

AccountsLookup == \E r \in RunIds : AccountsGetItem(r) \/ AccountsThrow(r)

AccountsNext == AccountsInvoke \/ AccountsLookup \/ AccountsAnswer

AccountsSpec == JobInit /\ [][AccountsNext]_vars

\* Invocation r has handled an ADD_NEW_ACCOUNTS job of a known item to the end
AccountsDone(r) ==
  /\ run[r].route = "handleAddNewAccounts" /\ run[r].pc = "done"
  /\ run[r].item_id \in DOMAIN items

\* C30: handleAddNewAccounts reports one entry for each account of the
\* accountsGet answer whose account_id is in the job's account_ids, and for
\* every account of the answer when account_ids is empty or absent; two
\* invocations with the same payload and the same answer report the same.
C30_ReportsFilteredAccounts ==
  /\ \A r \in RunIds :
       AccountsDone(r)
       => LET all == run[r].accounts
              ids == IF "account_ids" \in DOMAIN run[r].payload
                     THEN SeqRange(run[r].payload.account_ids) ELSE {}
              kept == {k \in 1..Len(all) : ids = {} \/ all[k].account_id \in ids}
          IN  /\ Len(run[r].reported) = Cardinality(kept)
              /\ {run[r].reported[k].account_id : k \in 1..Len(run[r].reported)}
                   = {all[k].account_id : k \in kept}
  /\ \A r, q \in RunIds :
       (AccountsDone(r) /\ AccountsDone(q)
          /\ run[r].payload = run[q].payload /\ run[r].accounts = run[q].accounts)
       => run[r].reported = run[q].reported

\* C30 witness: two invocations for item A with account_ids [acc2, acc9] got
\* the answer acc2, acc3, acc1 and both reported acc2 only.
C30_Witness ==
  \E r, q \in RunIds :
    /\ r < q /\ AccountsDone(r) /\ AccountsDone(q)
    /\ run[r].payload = [item_id |-> "A", account_ids |-> <<"acc2", "acc9">>]
    /\ run[q].payload = run[r].payload
    /\ Len(run[r].accounts) = 3 /\ run[q].accounts = run[r].accounts
    /\ Len(run[r].reported) = 1 /\ run[r].reported[1].account_id = "acc2"
    /\ run[q].reported = run[r].reported

C32_CursorChaining ==
  /\ [][\A r \in RunIds :
          LET i == run[r].item_id IN
          /\ (run[r].pc = "getCursor" /\ run'[r].pc = "sync")
             => run'[r].cursor = IF i \in DOMAIN sync_cursors THEN sync_cursors[i] ELSE 0
          /\ (run[r].pc = "sync" /\ run'[r].pc = "upsert")
             => /\ run'[r].from = run[r].cursor
                /\ run'[r].data = transactionsSync(feed[i], run[r].cursor)
          /\ (run[r].pc = "saveCursor" /\ run'[r].pc \in {"sync", "done"})
             => /\ run'[r].cursor = run[r].data.next_cursor
                /\ CursorRow(sync_cursors', i) = <<run[r].data.next_cursor>>]_vars
  /\ [](\A r \in RunIds :
          (run[r].pc = "sync" /\ RunsInTurn(run[r].item_id))
          => /\ run[r].cursor = getCursor(sync_cursors, run[r].item_id)
             /\ run[r].pages >= 1 => run[r].item_id \in DOMAIN sync_cursors)

\* C32 witness: a run of item A that began without a cursor row has saved
\* the first of two pages and is about to make its second call with that
\* page's next_cursor, which is the stored cursor.
C32_Witness ==
  \E r \in RunIds :
    /\ run[r].pc = "sync" /\ run[r].item_id = "A" /\ run[r].pages = 1
    /\ run[r].from = 0 /\ run[r].advanced = {0}
    /\ run[r].cursor = 1 /\ CursorRow(sync_cursors, "A") = <<1>>
    /\ Len(feed["A"]) = 2
    /\ \A q \in RunIds : q # r => run[q].pc = "idle"

\* ------------------------------------- runs that are scheduled to the end
\* An awaited call of invocation r resolves and the handler goes on
WorkerAdvance(r) ==
  \/ WorkerGetItem(r)
  \/ WorkerGetCursor(r)
  \/ WorkerSync(r)
  \/ WorkerUpsert(r)
  \/ WorkerSoftDelete(r)
  \/ WorkerSaveCursor(r)

TermNext == FlipTrigger \/ Worker

\* Every call of a run is answered in the end, by its result or by an error:
\* the event loop runs the continuation of every settled promise
TermSpec ==
  FlipInit /\ [][TermNext]_vars /\ \A r \in RunIds : WF_vars(WorkerAdvance(r))

\* C33: after a page is saved the run makes a further transactionsSync
\* request exactly when that page had has_more = true and is complete
\* otherwise; and every run that has started ends, completed when no call
\* fails (the source holds finitely many pages).
C33_LoopWhileHasMore ==
  /\ [][\A r \in RunIds :
          (run[r].pc = "saveCursor" /\ run'[r].pc # "saveCursor" /\ run'[r].pc # "failed")
          => IF run[r].data.has_more THEN run'[r].pc = "sync" ELSE run'[r].pc = "done"]_vars
  /\ \A r \in RunIds :
       (run[r].pc \in ActivePcs) ~> (run[r].pc \in {"done", "failed"})

\* C33 witness: a run of item A has requested a second page after a page
\* with has_more = true, saved it and completed after that page, the last
\* one the source holds.
C33_Witness ==
  \E r \in RunIds :
    /\ run[r].pc = "done" /\ run[r].item_id = "A"
    /\ run[r].pages = 2 /\ run[r].advanced = {0, 1}
    /\ run[r].cursor = Len(feed["A"]) /\ Len(feed["A"]) = 2
    /\ ~transactionsSync(feed["A"], 1).has_more /\ transactionsSync(feed["A"], 0).has_more

\* ------------------------------------------------------------------ C34
\* C34: an item has no sync_cursors row until a sync run has fully applied
\* a first page for it: a row exists only when some run of the item has
\* completed a page, and the step that creates or changes a row is the
\* cursor save of a run whose page is already applied. The stored cursor
\* is the next_cursor of a response the source gave for that item: the run
\* that saved it holds it, every response a run comes to hold is what the
\* source gave for the run's item at the run's cursor, and the value saved
\* is that response's next_cursor. sync_cursors is keyed by item_id (PRIMARY KEY, ON CONFLICT
\* DO UPDATE), so an item never has two rows.
C34_CursorRowOnlyAfterPage ==
  /\ [](\A i \in DOMAIN sync_cursors :
          /\ i \in DOMAIN items
          /\ sync_cursors[i] \in 0..Len(feed[i])
          /\ \E r \in SyncRuns(i) :
               run[r].pages >= 1 /\ run[r].cursor = sync_cursors[i])
  /\ [][/\ \A r \in RunIds :
            (run'[r].data # run[r].data /\ run'[r].data # NoData)
            => /\ run[r].pc = "sync"
               /\ run'[r].data = transactionsSync(feed[run[r].item_id], run[r].cursor)
        /\ \A i \in DOMAIN sync_cursors' :
            (i \notin DOMAIN sync_cursors \/ sync_cursors'[i] # sync_cursors[i])
            => \E r \in SyncRuns(i) :
                 /\ run[r].pc = "saveCursor"
                 /\ run'[r].pages = run[r].pages + 1
                 /\ sync_cursors'[i] = run[r].data.next_cursor]_vars

\* Item A has its cursor row after a run completed its first page, while
\* item B, never synced, has none.
C34_Witness ==
  /\ DOMAIN sync_cursors = {"A"}
  /\ sync_cursors["A"] = 1
  /\ \E r \in RunIds :
       /\ run[r].item_id = "A" /\ run[r].pc = "done" /\ run[r].pages = 1
       /\ \A q \in RunIds \ {r} : run[q].pc = "idle"

\* ------------------------------------------------------------------ C35
\* C35: the owning item of a record is fixed at its first insert: a new
\* record gets the item of the run that upserts it, and no step of a
\* worker job or of a webhook changes the item_id stored for an existing
\* transaction_id, also when the page of another item names that id.
C35_OwnerFixedAtInsert ==
  [][/\ \A id \in DOMAIN transactions :
          /\ id \in DOMAIN transactions'
          /\ transactions'[id].item_id = transactions[id].item_id
     /\ \A id \in DOMAIN transactions' \ DOMAIN transactions :
          \E r \in RunIds :
            /\ run[r].pc = "upsert"
            /\ transactions'[id].item_id = run[r].item_id]_vars

\* A run for item A has upserted a page that adds t2, a record item B
\* owned from the start: the row carries the page's values and is still
\* B's, next to t1, which the same page inserted for A.
C35_Witness ==
  /\ "t2" \in DOMAIN seed /\ seed["t2"].item_id = "B"
  /\ \E r \in RunIds :
       /\ run[r].item_id = "A" /\ run[r].route = "handleTransactionSync"
       /\ run[r].pc = "saveCursor" /\ run[r].pages = 0
       /\ \E k \in 1..Len(run[r].data.added) :
            run[r].data.added[k].transaction_id = "t2"
  /\ "t2" \in DOMAIN transactions
  /\ transactions["t2"] = [item_id |-> "B", amount |-> 20, currency |-> "USD",
                           deleted_at |-> NULL]
  /\ "t1" \in DOMAIN transactions /\ transactions["t1"].item_id = "A"

\* ------------------------------------------------------------------ C36
\* db.saveItem: INSERT ... ON CONFLICT (item_id) DO UPDATE SET ..., status
saveItem(I, item_id, status) ==
  [i \in DOMAIN I \cup {item_id} |-> IF i = item_id THEN status ELSE I[i]]

\* connections.ts 12-86: the public token is exchanged for the item and the
\* item is saved as active; when the exchange is rejected the handler
\* answers 500 and nothing is written
CreateConnection(item_id, exchange) ==
  /\ items' = IF exchange = "ok" THEN saveItem(items, item_id, "active") ELSE items
  /\ UNCHANGED <<transactions, sync_cursors, feed, now, timers, run, hook, seed>>

ItemStatuses == {"active", "login_required"}

\* Item A has one page to fetch and may need a new login already (an
\* earlier ITEM webhook has been processed)
ConnectInit ==
  /\ items \in {I \in [KnownItems -> ItemStatuses] : I["B"] = "active"}
  /\ transactions = <<>>
  /\ seed = transactions
  /\ sync_cursors = <<>>
  /\ \E p \in PagePool : feed = [i \in KnownItems |-> IF i = "A" THEN <<p>> ELSE <<>>]
  /\ now = 2
  /\ timers = <<>>
  /\ run = [r \in RunIds |-> IdleRun]
  /\ hook = [h \in HookIds |-> FreeHook]

\* One webhook of every kind the handler acts on, for item A
ConnectPayloads ==
  { WebhookBody("TRANSACTIONS", "DEFAULT_UPDATE", "A", <<>>, <<>>),
    WebhookBody("TRANSACTIONS", "TRANSACTIONS_REMOVED", "A", <<"t1">>, <<>>),
    WebhookBody("ITEM", "LOGIN_REQUIRED", "A", <<>>, <<>>),
    WebhookBody("ITEM", "ERROR", "A", <<>>, <<>>),
    WebhookBody("ITEM", "NEW_ACCOUNTS_AVAILABLE", "A", <<>>, <<"acc1">>) }

\* Webhooks arrive between the jobs
ConnectWebhook ==
  /\ JobsIdle
  /\ \E h \in HookIds, p \in ConnectPayloads :
       HandleWebhook(h, WebhookEvent("json", p), "ok")

\* The user links item A again
Connect == \E exchange \in {"ok", "rejects"} : CreateConnection("A", exchange)

\* Sync jobs of item A, one after the other, started while A needs a new
\* login and no webhook request is being processed
ConnectTrigger ==
  /\ JobsIdle
  /\ items["A"] = "login_required"
  /\ \A h \in HookIds : hook[h].pc \in {"free", "done"}
  /\ \E r \in RunIds : SQSInvoke(r, "A")

ConnectNext == ConnectWebhook \/ Background \/ ConnectTrigger \/ Worker \/ Connect

ConnectSpec == ConnectInit /\ [][ConnectNext]_vars

\* C36: webhook handling and worker jobs move an item's status only towards
\* login_required. A step that changes a status either sets it to
\* login_required, and is then the dispatch of an ITEM LOGIN_REQUIRED or
\* ITEM ERROR webhook for that item, or sets a login_required item back to
\* active, and is then saveItem of a new connection: it changes the items
\* table alone, no webhook request and no worker invocation moves with it.
C36_StatusOnlyTowardsLoginRequired ==
  [][\A i \in DOMAIN items :
       /\ i \in DOMAIN items'
       /\ items'[i] # items[i]
          => \/ /\ items'[i] = "login_required"
                /\ \E h \in HookIds :
                     /\ Dispatched(h)
                     /\ IsHook(h, "ITEM", {"LOGIN_REQUIRED", "ERROR"})
                     /\ hook[h].payload.item_id = i
             \/ /\ items[i] = "login_required" /\ items'[i] = "active"
                /\ items' = saveItem(items, i, "active")
                /\ UNCHANGED <<run, hook, timers, transactions, sync_cursors>>]_vars

\* Item A still needs a new login after a DEFAULT_UPDATE webhook for it was
\* processed and its job enqueued, and after a sync run of A stored a page.
C36_Witness ==
  /\ items["A"] = "login_required"
  /\ \E h \in HookIds :
       /\ hook[h].pc = "done" /\ ~hook[h].thrown
       /\ hook[h].payload.webhook_code = "DEFAULT_UPDATE"
       /\ hook[h].payload.item_id = "A"
       /\ Len(hook[h].jobs) = 1
  /\ \E r \in RunIds :
       /\ run[r].item_id = "A" /\ run[r].route = "handleTransactionSync"
       /\ run[r].pc = "done" /\ run[r].pages = 1

\* ------------------------------------------------------------------ C37
\* C37: once the processing of a webhook that handleWebhook answered with
\* processed = true has come to its end, the action named in the answer
\* has been carried out, whether or not the background processing failed:
\* trigger_transaction_sync has handed a SYNC_TRANSACTIONS job for the item
\* to the queue, soft_delete_N_transactions has tombstoned every listed
\* record that has a row, update_item_status_to_login_required and
\* handle_item_error have set the item's status to login_required, and
\* process_N_new_accounts with N > 0 has handed an ADD_NEW_ACCOUNTS job
\* with the listed accounts to the queue.
C37_ActionCarriedOut ==
  \A h \in HookIds :
    (hook[h].pc = "done" /\ hook[h].body = "json" /\ hook[h].response.processed)
    => LET p == hook[h].payload IN
       /\ (p.webhook_type = "TRANSACTIONS" /\ p.webhook_code \in DeltaCodes)
          => hook[h].jobs = <<QueueMessage("SYNC_TRANSACTIONS", SyncPayload(p.item_id))>>
       /\ (p.webhook_type = "TRANSACTIONS" /\ p.webhook_code = "TRANSACTIONS_REMOVED")
          => \A id \in SeqRange(p.removed_transactions) \cap DOMAIN transactions :
               transactions[id].deleted_at # NULL
       /\ (p.webhook_type = "ITEM" /\ p.webhook_code \in {"LOGIN_REQUIRED", "ERROR"})
          => items[p.item_id] = "login_required"
       /\ (p.webhook_type = "ITEM" /\ p.webhook_code = "NEW_ACCOUNTS_AVAILABLE"
             /\ Len(p.new_accounts) > 0)
          => hook[h].jobs = <<QueueMessage("ADD_NEW_ACCOUNTS",
                                [item_id |-> p.item_id, account_ids |-> p.new_accounts])>>

====
